---- MODULE Spec2Model ----
(***************************************************************************)
(* Model of scripts/build_output_ods.py: filling a run-length-compressed   *)
(* spreadsheet (PRINT_ALL sheet) from CSV records, one 31-row block per    *)
(* record, plus the reconciliation log.                                    *)
(*                                                                         *)
(* The document tree is a heap of nodes addressed by identity (a node id   *)
(* is its index in the heap), so that aliasing between the live rows, the  *)
(* captured template rows and their clones is part of the model.           *)
(* Texts (attribute values, cell text, CSV field values) are sequences of  *)
(* one-character strings.  The document library's attribute store is       *)
(* modelled as the mapping the source uses it as: setAttribute(k, v)       *)
(* stores v under k, getAttribute(k) reads k, node.attributes is that      *)
(* mapping.                                                                *)
(***************************************************************************)
EXTENDS Integers, Sequences, FiniteSets, TLC

VARIABLES
    heap,            \* the node store: Seq of [tag, attrs, kids, data]
    spreadsheet,     \* id of doc.spreadsheet
    print_all,       \* id of the PRINT_ALL table (None until selected)
    master_rows,     \* ids of the resident rows 1..31
    template_rows,   \* ids of the captured (detached) template rows
    break_attrs,     \* attributes captured from logical row 1000
    total_records,   \* records processed so far
    logs,            \* the in-memory log list
    pc,              \* position of build_output_ods
    input,           \* the CSV records still to be read
    saved,           \* doc.save has run
    output_file,     \* what this run has written to the output path: by whom (the
                     \* copy of the template on line 224, doc.save on line 346, or
                     \* nothing yet) and the names of the sheets of the file
    log_file,        \* the entries written to the log file by this run
    blocks,          \* history: block_rows of every processed record
    last,            \* history: the last operation applied and what it returned
    detached,        \* nodes returned by clone_node and held outside the table
    clones,          \* history: the (source, copy) pairs of the clone_node calls
    steps,           \* operations applied so far
    loaded           \* history: the PRINT_ALL sheet as loaded (row count, attributes),
                     \* the names of the sheets of the loaded document and the
                     \* records of the CSV file
                     \* and the template rows as captured

vars == <<heap, spreadsheet, print_all, master_rows, template_rows, break_attrs,
          total_records, logs, pc, input, saved, output_file, log_file, blocks,
          last, detached, clones, steps, loaded>>

----------------------------------------------------------------------------
(* Texts and Python's str()/int() on repeat counts *)

None == 0
NoneVal == <<"None">>

DigitChars == <<"0", "1", "2", "3", "4", "5", "6", "7", "8", "9">>

IsDigit(c) == \E d \in 1..Len(DigitChars) : DigitChars[d] = c

DigitVal(c) == (CHOOSE d \in 1..Len(DigitChars) : DigitChars[d] = c) - 1

RECURSIVE str(_)
str(n) ==
    IF n < Len(DigitChars) THEN <<DigitChars[n + 1]>>
    ELSE str(n \div Len(DigitChars)) \o <<DigitChars[(n % Len(DigitChars)) + 1]>>

RECURSIVE int(_)
int(s) ==
    IF Len(s) = 1 THEN DigitVal(s[1])
    ELSE Len(DigitChars) * int(SubSeq(s, 1, Len(s) - 1)) + DigitVal(s[Len(s)])

----------------------------------------------------------------------------
(* Nodes and the attribute store *)

EmptyAttrs == [k \in {} |-> <<>>]

Elem(tag, attrs, kids) == [tag |-> tag, attrs |-> attrs, kids |-> kids, data |-> <<>>]

OdfText(data) == [tag |-> "#text", attrs |-> EmptyAttrs, kids |-> <<>>, data |-> data]

\* evaluates H before going on (operator arguments are evaluated on demand)
Forced(H) == Len(H) >= 0

alloc(H, node) == [H |-> Append(H, node), r |-> Len(H) + 1]

getAttribute(node, name) ==
    IF name \in DOMAIN node.attrs THEN node.attrs[name] ELSE NoneVal

setAttribute(attrs, name, value) ==
    [k \in (DOMAIN attrs) \cup {name} |-> IF k = name THEN value ELSE attrs[k]]

attrs_pop(attrs, name) == [k \in (DOMAIN attrs) \ {name} |-> attrs[k]]

IndexOf(seq, x) == CHOOSE i \in 1..Len(seq) : seq[i] = x /\ \A j \in 1..(i - 1) : seq[j] # x

InsertAt(seq, i, x) == SubSeq(seq, 1, i - 1) \o <<x>> \o SubSeq(seq, i, Len(seq))

appendChild(H, parent, child) == [H EXCEPT ![parent].kids = Append(@, child)]

insertBefore(H, parent, newChild, refChild) ==
    IF refChild = None THEN appendChild(H, parent, newChild)
    ELSE [H EXCEPT ![parent].kids = InsertAt(@, IndexOf(@, refChild), newChild)]

removeChild(H, parent, child) ==
    [H EXCEPT ![parent].kids =
        SubSeq(@, 1, IndexOf(@, child) - 1) \o SubSeq(@, IndexOf(@, child) + 1, Len(@))]

RECURSIVE insert_all(_, _, _, _, _)
insert_all(H, parent, new_nodes, i, ref) ==
    IF Forced(H) /\ i > Len(new_nodes) THEN H
    ELSE insert_all(insertBefore(H, parent, new_nodes[i], ref), parent, new_nodes, i + 1, ref)

----------------------------------------------------------------------------
(* clone_node *)

RECURSIVE clone_node(_, _)
RECURSIVE clone_children(_, _, _, _)

\* cloned.appendChild(clone_node(child)), c = [H, r] the copy of the child
append_copy(c, cloned) == appendChild(c.H, cloned, c.r)

clone_node_shallow(H, node) ==
    IF H[node].tag = "#text" THEN alloc(H, OdfText(H[node].data))
    ELSE alloc(H, Elem(H[node].tag, H[node].attrs, H[node].kids))

clone_node(H, node) ==
    IF H[node].tag = "#text" THEN alloc(H, OdfText(H[node].data))
    ELSE LET a == alloc(H, Elem(H[node].tag, H[node].attrs, <<>>))
         IN  clone_children(a.H, a.r, H[node].kids, 1)

clone_children(H, cloned, kids, i) ==
    IF Forced(H) /\ i > Len(kids) THEN [H |-> H, r |-> cloned]
    ELSE clone_children(append_copy(clone_node(H, kids[i]), cloned), cloned, kids, i + 1)

----------------------------------------------------------------------------
(* Grid addressing: rows *)

iter_table_rows(H, table) ==
    SelectSeq(H[table].kids, LAMBDA n : H[n].tag = "table:table-row")

row_repeat_count(H, row) ==
    LET repeat == getAttribute(H[row], "numberrowsrepeated")
    IN  IF repeat # NoneVal /\ repeat # <<>> THEN int(repeat) ELSE 1

\* c = [H, r] a clone of the run: its repeat count is set and it joins the new
\* nodes of s = [H, new]
add_run(s, c, attr, count) ==
    [H |-> [c.H EXCEPT ![c.r].attrs = setAttribute(@, attr, str(count))],
     new |-> Append(s.new, c.r)]

\* a clone of node standing for count positions, if there are any
run_copy(s, node, attr, count) ==
    IF count > 0 THEN add_run(s, clone_node(s.H, node), attr, count) ELSE s

\* mutant: the new nodes go to the end of the parent
replace_run_at_end(s, parent, node, offset) ==
    [H |-> removeChild(insert_all(s.H, parent, s.new, 1, None), parent, node),
     r |-> s.new[IF offset > 0 THEN 2 ELSE 1]]

\* the new nodes go before node, node is removed; the target is the new node
\* after the before-run
replace_run(s, parent, node, offset) ==
    [H |-> removeChild(insert_all(s.H, parent, s.new, 1, node), parent, node),
     r |-> s.new[IF offset > 0 THEN 2 ELSE 1]]

\* mutant: the after-run keeps one row too many
split_row_long_after(H, table, row, repeat, offset) ==
    replace_run(run_copy(run_copy(run_copy([H |-> H, new |-> <<>>],
                                           row, "numberrowsrepeated", offset),
                                  row, "numberrowsrepeated", 1),
                         row, "numberrowsrepeated", repeat - offset),
                table, row, offset)

split_row(H, table, row, repeat, offset) ==
    replace_run(run_copy(run_copy(run_copy([H |-> H, new |-> <<>>],
                                           row, "numberrowsrepeated", offset),
                                  row, "numberrowsrepeated", 1),
                         row, "numberrowsrepeated", repeat - offset - 1),
                table, row, offset)

RECURSIVE ensure_physical_row_from(_, _, _, _, _, _)
ensure_physical_row_from(H, table, rows, i, current, index) ==
    IF i > Len(rows) THEN [H |-> H, r |-> None]
    ELSE LET row == rows[i]
             repeat == row_repeat_count(H, row)
         IN  IF current <= index /\ index <= current + repeat - 1
             THEN IF repeat = 1 THEN [H |-> H, r |-> row]
                  ELSE split_row(H, table, row, repeat, index - current)
             ELSE ensure_physical_row_from(H, table, rows, i + 1, current + repeat, index)

ensure_physical_row(H, table, index) ==
    ensure_physical_row_from(H, table, iter_table_rows(H, table), 1, 1, index)

RECURSIVE find_row_from(_, _, _, _, _)
find_row_from(H, rows, i, current, index) ==
    IF i > Len(rows) THEN None
    ELSE LET repeat == row_repeat_count(H, rows[i])
         IN  IF current <= index /\ index <= current + repeat - 1 THEN rows[i]
             ELSE find_row_from(H, rows, i + 1, current + repeat, index)

\* mutant: every run's interval is taken one position too long
RECURSIVE find_row_wide_from(_, _, _, _, _)
find_row_wide_from(H, rows, i, current, index) ==
    IF i > Len(rows) THEN None
    ELSE LET repeat == row_repeat_count(H, rows[i])
         IN  IF current <= index /\ index <= current + repeat THEN rows[i]
             ELSE find_row_wide_from(H, rows, i + 1, current + repeat, index)

find_row_at_index_wide(H, table, index) ==
    find_row_wide_from(H, iter_table_rows(H, table), 1, 1, index)

find_row_at_index(H, table, index) ==
    find_row_from(H, iter_table_rows(H, table), 1, 1, index)

----------------------------------------------------------------------------
(* Grid addressing: cells *)

iter_cells(H, row) ==
    SelectSeq(H[row].kids,
              LAMBDA n : H[n].tag \in {"table:table-cell", "table:covered-table-cell"})

cell_repeat_count(H, cell) ==
    LET repeat == getAttribute(H[cell], "numbercolumnsrepeated")
    IN  IF repeat # NoneVal /\ repeat # <<>> THEN int(repeat) ELSE 1

\* mutant: the after-run keeps one column too many
split_cell_long_after(H, row, cell, repeat, offset) ==
    replace_run(run_copy(run_copy(run_copy([H |-> H, new |-> <<>>],
                                           cell, "numbercolumnsrepeated", offset),
                                  cell, "numbercolumnsrepeated", 1),
                         cell, "numbercolumnsrepeated", repeat - offset),
                row, cell, offset)

split_cell(H, row, cell, repeat, offset) ==
    replace_run(run_copy(run_copy(run_copy([H |-> H, new |-> <<>>],
                                           cell, "numbercolumnsrepeated", offset),
                                  cell, "numbercolumnsrepeated", 1),
                         cell, "numbercolumnsrepeated", repeat - offset - 1),
                row, cell, offset)

RECURSIVE ensure_cell_from(_, _, _, _, _, _)
ensure_cell_from(H, row, cells, i, current, col_index) ==
    IF i > Len(cells) THEN [H |-> H, r |-> None]
    ELSE LET cell == cells[i]
             repeat == cell_repeat_count(H, cell)
         IN  IF current <= col_index /\ col_index <= current + repeat - 1
             THEN IF repeat = 1 THEN [H |-> H, r |-> cell]
                  ELSE split_cell(H, row, cell, repeat, col_index - current)
             ELSE ensure_cell_from(H, row, cells, i + 1, current + repeat, col_index)

\* mutant: a run of repeat count 1 is replaced by a copy of itself as well
RECURSIVE ensure_cell_from_resplit(_, _, _, _, _, _)
ensure_cell_from_resplit(H, row, cells, i, current, col_index) ==
    IF i > Len(cells) THEN [H |-> H, r |-> None]
    ELSE LET cell == cells[i]
             repeat == cell_repeat_count(H, cell)
         IN  IF current <= col_index /\ col_index <= current + repeat - 1
             THEN split_cell(H, row, cell, repeat, col_index - current)
             ELSE ensure_cell_from_resplit(H, row, cells, i + 1, current + repeat, col_index)

ensure_cell_resplit(H, row, col_index) ==
    ensure_cell_from_resplit(H, row, iter_cells(H, row), 1, 1, col_index)

ensure_cell(H, row, col_index) ==
    ensure_cell_from(H, row, iter_cells(H, row), 1, 1, col_index)

----------------------------------------------------------------------------
(* Cell content editor *)

list_remove_children(H, cell) == [H EXCEPT ![cell].kids = <<>>]

clear_cell_content(H, cell) ==
    IF cell = None THEN H
    ELSE [list_remove_children(H, cell) EXCEPT ![cell].attrs =
            attrs_pop(attrs_pop(attrs_pop(@, "value"), "value-type"), "date-value")]

\* P(text=text): a text:p element holding one text node (no text node for "")
P(H, text) ==
    LET p == alloc(H, Elem("text:p", EmptyAttrs, <<>>))
    IN  IF text = <<>> THEN p
        ELSE LET t == alloc(p.H, OdfText(text))
             IN  [H |-> appendChild(t.H, p.r, t.r), r |-> p.r]

\* err: the call raised (setAttribute on None)
set_cell_text(H, cell, text) ==
    LET H1 == clear_cell_content(H, cell)
    IN  IF text = <<>> THEN [H |-> H1, err |-> FALSE]
        ELSE IF cell = None THEN [H |-> H1, err |-> TRUE]
        ELSE LET H2 == [H1 EXCEPT ![cell].attrs =
                            setAttribute(@, "valuetype", <<"s", "t", "r", "i", "n", "g">>)]
                 p == P(H2, text)
             IN  [H |-> appendChild(p.H, cell, p.r), err |-> FALSE]

----------------------------------------------------------------------------
(* Text normalisation and decimal parsing *)

RECURSIVE lstrip(_)
lstrip(s) == IF s # <<>> /\ s[1] = " " THEN lstrip(Tail(s)) ELSE s

RECURSIVE rstrip(_)
rstrip(s) == IF s # <<>> /\ s[Len(s)] = " " THEN rstrip(SubSeq(s, 1, Len(s) - 1)) ELSE s

strip(s) == rstrip(lstrip(s))

replace_char(s, ch) == SelectSeq(s, LAMBDA c : c # ch)

normalize_text(value) == IF value # NoneVal THEN strip(value) ELSE <<>>

normalize_number_text(value) ==
    IF value = NoneVal THEN <<>>
    ELSE strip(replace_char(replace_char(value, ","), "$"))

\* order_date.split(" ")[0]
RECURSIVE split_first(_)
split_first(s) ==
    IF s = <<>> \/ s[1] = " " THEN <<>> ELSE <<s[1]>> \o split_first(Tail(s))

\* Decimal values: (-1)^neg * coef * 10^exp for the kind "number"; a NaN (kind
\* "NaN", or "sNaN" for the signaling one) keeps its payload in coef, 0 for none
Dec(neg, coef, exp) == [neg |-> neg, coef |-> coef, exp |-> exp, kind |-> "number"]

TxtNaN == <<"N", "a", "N">>
TxtSNaN == <<"s">> \o TxtNaN

\* the length of the NaN or sNaN the text starts with, 0 for none
NaNPrefix(s) ==
    IF Len(s) >= Len(TxtSNaN) /\ SubSeq(s, 1, Len(TxtSNaN)) = TxtSNaN THEN Len(TxtSNaN)
    ELSE IF Len(s) >= Len(TxtNaN) /\ SubSeq(s, 1, Len(TxtNaN)) = TxtNaN THEN Len(TxtNaN)
    ELSE 0

\* the operation signals InvalidOperation, which the default context traps
Signals(x, y) == x.kind = "sNaN" \/ y.kind = "sNaN"

DecimalZero == Dec(FALSE, 0, 0)

\* Decimal(cleaned) accepts, over the alphabet of the model (digits, ".", ",",
\* "$", " ", "x", "/", "s", "N", "a"), digits with at most one "." and at least
\* one digit, and NaN or sNaN followed by payload digits
DecimalValid(s) ==
    \/ /\ \A i \in 1..Len(s) : IsDigit(s[i]) \/ s[i] = "."
       /\ Cardinality({i \in 1..Len(s) : s[i] = "."}) <= 1
       /\ \E i \in 1..Len(s) : IsDigit(s[i])
    \/ /\ NaNPrefix(s) > 0
       /\ \A i \in (NaNPrefix(s) + 1)..Len(s) : IsDigit(s[i])

Decimal(s) ==
    LET digits == SelectSeq(s, IsDigit)
        dots == {i \in 1..Len(s) : s[i] = "."}
        frac == IF dots = {} THEN 0 ELSE Len(s) - (CHOOSE i \in dots : TRUE)
    IN  IF NaNPrefix(s) > 0
        THEN [neg |-> FALSE, coef |-> IF digits = <<>> THEN 0 ELSE int(digits), exp |-> 0,
              kind |-> IF NaNPrefix(s) = Len(TxtSNaN) THEN "sNaN" ELSE "NaN"]
        ELSE Dec(FALSE, int(digits), 0 - frac)

Pow10(n) == IF n = 0 THEN 1 ELSE int(<<"1">> \o [i \in 1..n |-> "0"])

Min(a, b) == IF a <= b THEN a ELSE b

\* signed coefficient of d at exponent e <= d.exp
Scaled(d, e) == (IF d.neg THEN 0 - d.coef ELSE d.coef) * Pow10(d.exp - e)

FromScaled(v, e) == IF v < 0 THEN Dec(TRUE, 0 - v, e) ELSE Dec(FALSE, v, e)

\* x + y, x - y and x == y where no operand signals; the result of an operation
\* on a NaN is the first NaN among the operands, and a NaN equals nothing
DecAdd(x, y) ==
    LET e == Min(x.exp, y.exp)
    IN  IF x.kind = "NaN" THEN x
        ELSE IF y.kind = "NaN" THEN y
        ELSE FromScaled(Scaled(x, e) + Scaled(y, e), e)

DecSub(x, y) ==
    LET e == Min(x.exp, y.exp)
    IN  IF x.kind = "NaN" THEN x
        ELSE IF y.kind = "NaN" THEN y
        ELSE FromScaled(Scaled(x, e) - Scaled(y, e), e)

DecEq(x, y) ==
    LET e == Min(x.exp, y.exp)
    IN  x.kind = "number" /\ y.kind = "number" /\ Scaled(x, e) = Scaled(y, e)

\* str(Decimal): plain notation (exp <= 0, adjusted exponent >= -6)
DecStr(d) ==
    LET digits == str(d.coef)
        point == Len(digits) + d.exp
        body == IF d.exp = 0 THEN digits
                ELSE IF point > 0
                     THEN SubSeq(digits, 1, point) \o <<".">> \o SubSeq(digits, point + 1, Len(digits))
                     ELSE <<"0", ".">> \o [i \in 1..(0 - point) |-> "0"] \o digits
    IN  IF d.kind = "NaN" THEN TxtNaN \o (IF d.coef = 0 THEN <<>> ELSE digits)
        ELSE IF d.kind = "sNaN" THEN TxtSNaN \o (IF d.coef = 0 THEN <<>> ELSE digits)
        ELSE IF d.neg THEN <<"-">> \o body ELSE body

----------------------------------------------------------------------------
(* Reconciliation log *)

BASE_FIELDS == <<"Serial No", "Order No", "Order Date", "Customer Name", "Grand Total">>

format_log_entry(reason, record, extra) ==
    [Reason |-> reason,
     base |-> [i \in 1..Len(BASE_FIELDS) |-> <<BASE_FIELDS[i], record.hdr[BASE_FIELDS[i]]>>],
     extra |-> extra]

\* mutant: a value that is not a number counts as 0 without a log entry
parse_decimal_quiet(value, record, field, L) ==
    LET cleaned == normalize_number_text(value)
    IN  IF cleaned # <<>> /\ DecimalValid(cleaned) THEN [v |-> Decimal(cleaned), logs |-> L]
        ELSE [v |-> DecimalZero, logs |-> L]

\* returns the parsed value and the log list
parse_decimal(value, record, field, L) ==
    LET cleaned == normalize_number_text(value)
    IN  IF cleaned = <<>> THEN [v |-> DecimalZero, logs |-> L]
        ELSE IF DecimalValid(cleaned) THEN [v |-> Decimal(cleaned), logs |-> L]
        ELSE [v |-> DecimalZero,
              logs |-> Append(L, format_log_entry("PARSE_ERROR", record,
                                   <<<<"Field", field>>, <<"Value", value>>>>))]

\* mutant: the repeat count of the break row is copied like any other attribute
apply_page_break_all(H, target_row, attrs) ==
    [H EXCEPT ![target_row].attrs =
        [k \in (DOMAIN @) \cup (DOMAIN attrs) |-> IF k \in DOMAIN attrs THEN attrs[k] ELSE @[k]]]

apply_page_break(H, target_row, attrs) ==
    [H EXCEPT ![target_row].attrs =
        [k \in (DOMAIN @) \cup ((DOMAIN attrs) \ {"numberrowsrepeated"}) |->
            IF k \in (DOMAIN attrs) \ {"numberrowsrepeated"} THEN attrs[k] ELSE @[k]]]

----------------------------------------------------------------------------
(* build_output_ods: per-record block filling *)

BLOCK_ROWS == 31

BREAK_ROW == 1000

CLEAR_CELLS == <<<<4, 5>>, <<4, 6>>, <<14, 6>>, <<18, 5>>, <<18, 7>>>>

CLEAR_RANGES == <<<<3, 13, 28>>, <<6, 13, 28>>, <<12, 13, 28>>, <<14, 13, 28>>,
                  <<15, 13, 28>>, <<15, 29, 29>>>>

\* mutant: the columns of quantity and price taken for each other
COLUMN_LETTER_MAP_swapped == [C |-> 3, D |-> 4, F |-> 6, L |-> 14, N |-> 12, O |-> 15, R |-> 18]

COLUMN_LETTER_MAP == [C |-> 3, D |-> 4, F |-> 6, L |-> 12, N |-> 14, O |-> 15, R |-> 18]

FIRST_ITEM == 1
LAST_ITEM == 16
FIRST_OVERFLOW == 17
LAST_OVERFLOW == 25
ITEM_ROW_OFFSET == 12
GRAND_TOTAL_ROW == 29

PRODUCT_FIELDS == <<"Name", "SKU", "Quantity", "Price", "Total">>

\* clear_cell_content(cell), c = [H, r] the outcome of cell = ensure_cell(row, col)
clear_found(c) == clear_cell_content(c.H, c.r)

clear_at(H, row, col) == clear_found(ensure_cell(H, row, col))

\* set_cell_text(ensure_cell(row, col), text)
write_found(c, text) == set_cell_text(c.H, c.r, text)

write_at(H, row, col, text) == write_found(ensure_cell(H, row, col), text)

RECURSIVE clear_range_rows(_, _, _, _, _)
clear_range_rows(H, block_rows, col, row_idx, row_end) ==
    IF Forced(H) /\ row_idx > row_end THEN H
    ELSE clear_range_rows(clear_at(H, block_rows[row_idx], col),
                          block_rows, col, row_idx + 1, row_end)

RECURSIVE clear_ranges(_, _, _)
clear_ranges(H, block_rows, i) ==
    IF Forced(H) /\ i > Len(CLEAR_RANGES) THEN H
    ELSE clear_ranges(clear_range_rows(H, block_rows, CLEAR_RANGES[i][1],
                                       CLEAR_RANGES[i][2], CLEAR_RANGES[i][3]),
                      block_rows, i + 1)

RECURSIVE clear_cells(_, _, _)
clear_cells(H, block_rows, i) ==
    IF Forced(H) /\ i > Len(CLEAR_CELLS) THEN H
    ELSE clear_cells(clear_at(H, block_rows[CLEAR_CELLS[i][2]], CLEAR_CELLS[i][1]),
                     block_rows, i + 1)

\* a list of set_cell_text(ensure_cell(row, col), text) calls on st = [H, err],
\* stopping at a raise
RECURSIVE write_all(_, _, _)
write_all(st, cmds, i) ==
    IF st.err \/ i > Len(cmds) THEN st
    ELSE write_all(write_at(st.H, cmds[i][1], cmds[i][2], cmds[i][3]), cmds, i + 1)

write_header(H, block_rows, record) ==
    LET od == normalize_text(record.hdr["Order Date"])
        order_date == IF od # <<>> THEN split_first(od) ELSE od
        customer_name == normalize_text(record.hdr["Customer Name"])
        serial_no == normalize_text(record.hdr["Serial No"])
        order_no == normalize_text(record.hdr["Order No"])
        customer_phone == normalize_text(record.hdr["Customer Phone"])
    IN  write_all([H |-> H, err |-> FALSE],
                  << <<block_rows[5], COLUMN_LETTER_MAP.D, order_date>>,
                     <<block_rows[6], COLUMN_LETTER_MAP.D, customer_name>>,
                     <<block_rows[6], COLUMN_LETTER_MAP.N, serial_no>>,
                     <<block_rows[5], COLUMN_LETTER_MAP.R, order_no>>,
                     <<block_rows[7], COLUMN_LETTER_MAP.R, customer_phone>> >>, 1)

\* the state after one line item: w = [H, err] its cells written, pd = [v, logs]
\* its total parsed; the addition on line 297 comes before the writes and
\* raises InvalidOperation on a signaling NaN
item_done(st, w, pd) ==
    IF Signals(st.sum, pd.v) THEN [H |-> st.H, logs |-> pd.logs, sum |-> st.sum, err |-> TRUE]
    ELSE [H |-> w.H, logs |-> pd.logs, sum |-> DecAdd(st.sum, pd.v), err |-> w.err]

\* the loop over line items 1..16; st = [H, logs, sum, err]
RECURSIVE write_items(_, _, _, _)
write_items(st, block_rows, record, index) ==
    IF index > LAST_ITEM \/ st.err THEN st
    ELSE LET row_index == ITEM_ROW_OFFSET + index
             item == record.prod[index]
             sku == normalize_text(item["SKU"])
             name == normalize_text(item["Name"])
             quantity == normalize_number_text(item["Quantity"])
             price == normalize_number_text(item["Price"])
             total_value_raw == item["Total"]
             total_value == normalize_number_text(total_value_raw)
             target_row == block_rows[row_index]
         IN  write_items(
                item_done(st,
                    write_all([H |-> st.H, err |-> FALSE],
                              << <<target_row, COLUMN_LETTER_MAP.C, sku>>,
                                 <<target_row, COLUMN_LETTER_MAP.F, name>>,
                                 <<target_row, COLUMN_LETTER_MAP.L, quantity>>,
                                 <<target_row, COLUMN_LETTER_MAP.N, price>>,
                                 <<target_row, COLUMN_LETTER_MAP.O, total_value>> >>, 1),
                    parse_decimal(total_value_raw, record, <<"Product", index, "Total">>,
                                  st.logs)),
                block_rows, record, index + 1)

\* mutant: line item 25 is not looked at
has_products_17_24(record) ==
    \E index \in FIRST_OVERFLOW..(LAST_OVERFLOW - 1) :
        \E f \in 1..Len(PRODUCT_FIELDS) :
            normalize_text(record.prod[index][PRODUCT_FIELDS[f]]) # <<>>

has_products_17_25(record) ==
    \E index \in FIRST_OVERFLOW..LAST_OVERFLOW :
        \E f \in 1..Len(PRODUCT_FIELDS) :
            normalize_text(record.prod[index][PRODUCT_FIELDS[f]]) # <<>>

\* mutant: the difference taken the other way round
mismatch_log_reversed(L, totals_sum, grand_total, record) ==
    IF ~DecEq(totals_sum, grand_total)
    THEN Append(L, format_log_entry("TOTAL_MISMATCH", record,
                      << <<"Sum(Product Totals)", DecStr(totals_sum)>>,
                         <<"Diff", DecStr(DecSub(totals_sum, grand_total))>> >>))
    ELSE L

\* lines 310-321
mismatch_log(L, totals_sum, grand_total, record) ==
    IF ~DecEq(totals_sum, grand_total)
    THEN Append(L, format_log_entry("TOTAL_MISMATCH", record,
                      << <<"Sum(Product Totals)", DecStr(totals_sum)>>,
                         <<"Diff", DecStr(DecSub(grand_total, totals_sum))>> >>))
    ELSE L

\* lines 323-339
overflow_log(L, record) ==
    IF has_products_17_25(record)
    THEN Append(L, format_log_entry("HAS_PRODUCT_17_25", record, <<>>))
    ELSE L

\* mutant: the overflow entry is logged before the mismatch entry
block_done_overflow_first(wg, L, totals_sum, grand_total, record) ==
    IF wg.err \/ Signals(totals_sum, grand_total) THEN [H |-> wg.H, logs |-> L, err |-> TRUE]
    ELSE [H |-> wg.H, logs |-> mismatch_log(overflow_log(L, record), totals_sum, grand_total,
                                            record),
          err |-> FALSE]

\* the block once the grand total cell is written (wg = [H, err]); the run stops
\* at line 308 if the write raised and at line 310 if the comparison signals
block_done(wg, L, totals_sum, grand_total, record) ==
    IF wg.err \/ Signals(totals_sum, grand_total) THEN [H |-> wg.H, logs |-> L, err |-> TRUE]
    ELSE [H |-> wg.H, logs |-> overflow_log(mismatch_log(L, totals_sum, grand_total, record),
                                            record),
          err |-> FALSE]

\* lines 308-339, gt = [v, logs] the grand total parsed
grand_total_written(it, gt, block_rows, record) ==
    block_done(write_at(it.H, block_rows[GRAND_TOTAL_ROW], COLUMN_LETTER_MAP.O,
                        <<"$">> \o DecStr(gt.v)),
               gt.logs, it.sum, gt.v, record)

\* lines 306-339, it = [H, logs, sum, err] the state after the line items
reconcile(it, block_rows, record) ==
    IF it.err THEN [H |-> it.H, logs |-> it.logs, err |-> TRUE]
    ELSE grand_total_written(it,
            parse_decimal(record.hdr["Grand Total"], record, <<"Grand Total">>, it.logs),
            block_rows, record)

\* totals_sum = Decimal("0") after the header cells (hd = [H, err])
items_start(hd, L) == [H |-> hd.H, logs |-> L, sum |-> DecimalZero, err |-> hd.err]

\* lines 265-339 for one record on its block; returns [H, logs, err]
fill_block(H, L, block_rows, record) ==
    reconcile(
        write_items(
            items_start(
                write_header(clear_cells(clear_ranges(H, block_rows, 1), block_rows, 1),
                             block_rows, record),
                L),
            block_rows, record, FIRST_ITEM),
        block_rows, record)

\* [clone_node(row) for row in rows]; returns [H, rows]
RECURSIVE clone_rows(_, _, _, _)
RECURSIVE clone_rows_next(_, _, _, _)
clone_rows(H, rows, i, acc) ==
    IF Forced(H) /\ i > Len(rows) THEN [H |-> H, rows |-> acc]
    ELSE clone_rows_next(clone_node(H, rows[i]), rows, i, acc)

clone_rows_next(c, rows, i, acc) == clone_rows(c.H, rows, i + 1, Append(acc, c.r))

\* mutant: blocks one row short of the block size apart
start_row_of_short(n) == 1 + (n - 1) * (BLOCK_ROWS - 1)

start_row_of(n) == 1 + (n - 1) * BLOCK_ROWS

\* mutant: every record reuses the resident rows
obtain_block_resident(H, table, masters, templates, brk, n) == [H |-> H, rows |-> masters]

\* lines 258-263: the cloned rows cl = [H, rows] go before insert_before
place_block(cl, table, insert_before, brk) ==
    [H |-> apply_page_break(insert_all(cl.H, table, cl.rows, 1, insert_before),
                            cl.rows[1], brk),
     rows |-> cl.rows]

\* lines 250-263: the block of the record with ordinal n; returns [H, rows]
obtain_block(H, table, masters, templates, brk, n) ==
    IF n = 1 THEN [H |-> H, rows |-> masters]
    ELSE place_block(clone_rows(H, templates, 1, <<>>), table,
                     find_row_at_index(H, table, start_row_of(n)), brk)

----------------------------------------------------------------------------
(* Template documents and CSV inputs the run starts from *)

MaxRecords == 2
TplCols == 20
TplTail == 24

RECURSIVE build(_, _)
RECURSIVE build_children(_, _, _, _)

\* loads a literal tree [tag, attrs, kids, data] into the heap
build(H, lit) ==
    IF lit.tag = "#text" THEN alloc(H, OdfText(lit.data))
    ELSE LET a == alloc(H, Elem(lit.tag, lit.attrs, <<>>))
         IN  build_children(a.H, a.r, lit.kids, 1)

build_children(H, parent, kids, i) ==
    IF Forced(H) /\ i > Len(kids) THEN [H |-> H, r |-> parent]
    ELSE build_children(append_copy(build(H, kids[i]), parent), parent, kids, i + 1)

Attr1(k, v) == [x \in {k} |-> v]

Merge(f, g) == [x \in (DOMAIN f) \cup (DOMAIN g) |-> IF x \in DOMAIN g THEN g[x] ELSE f[x]]

LitP(text) ==
    [tag |-> "text:p", attrs |-> EmptyAttrs, data |-> <<>>,
     kids |-> <<[tag |-> "#text", attrs |-> EmptyAttrs, kids |-> <<>>, data |-> text]>>]

\* a cell run: repeat count, style, further attributes, content paragraphs
LitCell(rep, style, extra, kids) ==
    [tag |-> "table:table-cell", data |-> <<>>, kids |-> kids,
     attrs |-> Merge(Merge(Attr1("stylename", style), extra),
                     IF rep > 1 THEN Attr1("numbercolumnsrepeated", str(rep)) ELSE EmptyAttrs)]

LitRow(rep, style, cells) ==
    [tag |-> "table:table-row", data |-> <<>>, kids |-> cells,
     attrs |-> Merge(Attr1("stylename", style),
                     IF rep > 1 THEN Attr1("numberrowsrepeated", str(rep)) ELSE EmptyAttrs)]

LitTable(name, extra, rows) ==
    [tag |-> "table:table", data |-> <<>>, attrs |-> Merge(Attr1("name", name), extra),
     kids |-> <<[tag |-> "table:table-column", data |-> <<>>, kids |-> <<>>,
                 attrs |-> Attr1("numbercolumnsrepeated", str(TplCols))]>> \o rows]

LitDoc(tables) ==
    [tag |-> "office:spreadsheet", data |-> <<>>, attrs |-> EmptyAttrs, kids |-> tables]

TxtString == <<"s", "t", "r", "i", "n", "g">>
TxtFloat == <<"f", "l", "o", "a", "t">>
TxtPrintAll == <<"P", "R", "I", "N", "T", "_", "A", "L", "L">>
TxtData == <<"D", "A", "T", "A">>

CellsEmpty == <<LitCell(TplCols, <<"c", "e", "1">>, EmptyAttrs, <<>>)>>

\* a label at B, a repeated text cell over C..D
CellsLabelled ==
    <<LitCell(1, <<"c", "e", "1">>, EmptyAttrs, <<>>),
      LitCell(1, <<"c", "e", "2">>, Attr1("value-type", TxtString), <<LitP(<<"N", "o">>)>>),
      LitCell(2, <<"c", "e", "3">>, Attr1("value-type", TxtString), <<LitP(<<"t", "p", "l">>)>>),
      LitCell(TplCols - 4, <<"c", "e", "1">>, EmptyAttrs, <<>>)>>

\* a repeated numeric cell over C..P, a date cell at R
CellsValued ==
    <<LitCell(2, <<"c", "e", "1">>, EmptyAttrs, <<>>),
      LitCell(14, <<"c", "e", "4">>,
              Merge(Attr1("value", <<"5">>), Attr1("value-type", TxtFloat)), <<LitP(<<"5">>)>>),
      LitCell(1, <<"c", "e", "1">>, EmptyAttrs, <<>>),
      LitCell(1, <<"c", "e", "5">>, Attr1("date-value", <<"2", "0", "2", "4">>), <<LitP(<<"d">>)>>),
      LitCell(TplCols - 18, <<"c", "e", "1">>, EmptyAttrs, <<>>)>>

Ro(n) == <<"r", "o", DigitChars[n + 1]>>

\* one run over rows 1..31, row 1000 physical
RowsA ==
    <<LitRow(BLOCK_ROWS, Ro(1), CellsValued),
      LitRow(BREAK_ROW - BLOCK_ROWS - 1, Ro(2), CellsEmpty),
      LitRow(1, Ro(3), CellsEmpty),
      LitRow(TplTail, Ro(2), CellsEmpty)>>

\* several runs, one of them across row 31, row 1000 inside a run
RowsB ==
    <<LitRow(1, Ro(1), CellsLabelled),
      LitRow(11, Ro(2), CellsEmpty),
      LitRow(16, Ro(4), CellsValued),
      LitRow(10, Ro(5), CellsLabelled),
      LitRow(BREAK_ROW + TplTail, Ro(6), CellsEmpty)>>

\* exactly 31 rows: no row 32, no row 1000
RowsC ==
    <<LitRow(12, Ro(1), CellsLabelled),
      LitRow(16, Ro(2), CellsValued),
      LitRow(3, Ro(3), CellsEmpty)>>

\* more than 31 rows, fewer than 1000
RowsD == <<LitRow(BLOCK_ROWS + TplTail, Ro(1), CellsValued)>>

\* fewer than 31 rows: no row 31
RowsE ==
    <<LitRow(5, Ro(1), CellsValued),
      LitRow(1, Ro(2), CellsLabelled),
      LitRow(BLOCK_ROWS - 7, Ro(3), CellsEmpty)>>

\* a print range already present in the template
TemplatePrintRange ==
    Attr1("print-ranges", <<"'">> \o TxtPrintAll \o <<"'", ".", "A", "1", ":", "'">>
                              \o TxtPrintAll \o <<"'", ".", "R", "3", "1">>)

OtherSheet == LitTable(TxtData, EmptyAttrs, <<LitRow(1, Ro(1), CellsEmpty)>>)

Templates ==
    <<LitDoc(<<LitTable(TxtPrintAll, EmptyAttrs, RowsA)>>),
      LitDoc(<<OtherSheet, LitTable(TxtPrintAll, TemplatePrintRange, RowsB), OtherSheet>>),
      LitDoc(<<LitTable(TxtPrintAll, TemplatePrintRange, RowsC), OtherSheet>>),
      LitDoc(<<OtherSheet, LitTable(TxtPrintAll, EmptyAttrs, RowsD)>>),
      LitDoc(<<OtherSheet>>),
      LitDoc(<<LitTable(TxtPrintAll, EmptyAttrs, RowsE)>>)>>

----------------------------------------------------------------------------
(* Observations of the document used to state the properties *)

\* the structure below a node, without node identities
RECURSIVE Tree(_, _)
Tree(H, id) ==
    [tag |-> H[id].tag, attrs |-> H[id].attrs, data |-> H[id].data,
     kids |-> [i \in 1..Len(H[id].kids) |-> Tree(H, H[id].kids[i])]]

\* the ids of a node and of everything below it
RECURSIVE Reach(_, _)
Reach(H, id) ==
    {id} \cup UNION {Reach(H, H[id].kids[i]) : i \in 1..Len(H[id].kids)}

RECURSIVE SumSeq(_)
SumSeq(q) == IF q = <<>> THEN 0 ELSE Head(q) + SumSeq(Tail(q))

RowRuns(H, table) ==
    LET rows == iter_table_rows(H, table)
    IN  [i \in 1..Len(rows) |-> row_repeat_count(H, rows[i])]

CellRuns(H, row) ==
    LET cells == iter_cells(H, row)
    IN  [i \in 1..Len(cells) |-> cell_repeat_count(H, cells[i])]

TotalRows(H, table) == SumSeq(RowRuns(H, table))

TotalCols(H, row) == SumSeq(CellRuns(H, row))

\* the first run from run i on that holds logical position k, 0 if there is
\* none; before is the length of the runs before run i
RECURSIVE RunFrom(_, _, _, _)
RunFrom(runs, i, before, k) ==
    IF i > Len(runs) THEN 0
    ELSE IF before < k /\ k <= before + runs[i] THEN i
    ELSE RunFrom(runs, i + 1, before + runs[i], k)

\* the run holding logical position k of a run sequence, 0 if there is none
RunAt(runs, k) == RunFrom(runs, 1, 0, k)

RowAt(H, table, k) ==
    LET i == RunAt(RowRuns(H, table), k)
    IN  IF i = 0 THEN None ELSE iter_table_rows(H, table)[i]

CellAt(H, row, k) ==
    LET i == RunAt(CellRuns(H, row), k)
    IN  IF i = 0 THEN None ELSE iter_cells(H, row)[i]

\* the text a cell shows: its paragraphs' text nodes, concatenated
RECURSIVE TextOf(_, _)
TextOf(H, id) ==
    IF H[id].tag = "#text" THEN H[id].data
    ELSE LET parts == [i \in 1..Len(H[id].kids) |-> TextOf(H, H[id].kids[i])]
             cat[i \in 0..Len(parts)] == IF i = 0 THEN <<>> ELSE cat[i - 1] \o parts[i]
         IN  cat[Len(parts)]

----------------------------------------------------------------------------
(* CSV records *)

HDR_FIELDS == {"Serial No", "Order No", "Order Date", "Customer Name",
               "Customer Phone", "Grand Total"}

EmptyItem == [f \in {"Name", "SKU", "Quantity", "Price", "Total"} |-> <<>>]

NoOverflow == [index |-> 0, field |-> "Name", value |-> <<>>]

\* a record with line items 1 and 16 filled (totals t1, t2), grand total g and
\* one field ov of an item 17..25
FilledRecord(t1, t2, g, ov) ==
    [hdr |-> [f \in HDR_FIELDS |->
                CASE f = "Serial No" -> <<"7">>
                  [] f = "Order No" -> <<" ", "9", "1">>
                  [] f = "Order Date" -> <<"2", "0", "2", "4", " ", "1", "0">>
                  [] f = "Customer Name" -> <<" ", "x", " ", "x", " ">>
                  [] f = "Customer Phone" -> <<>>
                  [] OTHER -> g],
     prod |-> [i \in 1..LAST_OVERFLOW |->
                CASE i = FIRST_ITEM ->
                        [f \in DOMAIN EmptyItem |->
                            CASE f = "SKU" -> <<"x", "1">>
                              [] f = "Name" -> <<"x", " ", "x">>
                              [] f = "Quantity" -> <<"1", ",", "0">>
                              [] f = "Price" -> <<"$", "5">>
                              [] OTHER -> t1]
                  [] i = LAST_ITEM -> [EmptyItem EXCEPT !["SKU"] = <<"x", "2">>, !["Total"] = t2]
                  [] i = ov.index -> [EmptyItem EXCEPT ![ov.field] = ov.value]
                  [] OTHER -> EmptyItem]]

\* a record whose every field is empty except the grand total g, the total t of
\* line item 2 and one field ov of an item 17..25
SparseRecord(t, g, ov) ==
    [hdr |-> [f \in HDR_FIELDS |-> IF f = "Grand Total" THEN g ELSE <<>>],
     prod |-> [i \in 1..LAST_OVERFLOW |->
                CASE i = FIRST_ITEM + 1 -> [EmptyItem EXCEPT !["Total"] = t]
                  [] i = ov.index -> [EmptyItem EXCEPT ![ov.field] = ov.value]
                  [] OTHER -> EmptyItem]]

Txt999 == <<"9", ".", "9", "9">>
Txt1998 == <<"1", "9", ".", "9", "8">>
Txt1999 == <<"1", "9", ".", "9", "9">>

ItemTotals1 == {<<>>, <<"x">>, Txt999, <<"$", "1", ",", "0", "0", "0">>}
ItemTotals2 == {<<>>, <<" ">>, Txt999, <<"5", ".", "5", ".">>}
GrandTotals == {<<>>, <<"x", "/", "x">>, Txt1998, Txt1999, <<" ", "1", "0", "0", "0", ".", "0">>}
Overflows == {NoOverflow,
              [index |-> 20, field |-> "Name", value |-> <<"x">>],
              [index |-> FIRST_OVERFLOW, field |-> "SKU", value |-> <<" ">>],
              [index |-> LAST_OVERFLOW, field |-> "Total", value |-> <<"5">>]}

\* the records of the multi-record inputs
RecordChoices ==
    {FilledRecord(Txt999, Txt999, Txt1999, NoOverflow),
     FilledRecord(<<"x">>, <<>>, <<"5">>, [index |-> 20, field |-> "Name", value |-> <<"x">>])}

\* the records of the single-record inputs
ReconRecords ==
    {FilledRecord(t1, t2, g, NoOverflow) : t1 \in ItemTotals1, t2 \in ItemTotals2,
                                           g \in GrandTotals}
    \cup {FilledRecord(Txt999, Txt999, g, ov) : g \in {Txt1998, Txt1999}, ov \in Overflows}
    \cup {FilledRecord(<<"x">>, Txt999, <<"x", "/", "x">>,
                        [index |-> 20, field |-> "Name", value |-> <<"x">>])}
    \cup {SparseRecord(t, g, ov) : t \in {<<>>, <<"x">>}, g \in {<<>>, <<"5">>},
                                    ov \in Overflows}

\* records with a signaling NaN as the total of line item 2 or as the grand total
SignalRecords ==
    {SparseRecord(TxtSNaN, <<"5">>, NoOverflow),
     SparseRecord(<<"5">>, <<" ">> \o TxtSNaN \o <<"7">>, NoOverflow)}

RECURSIVE SeqsUpTo(_, _)
SeqsUpTo(S, n) ==
    IF n = 0 THEN {<<>>}
    ELSE LET shorter == SeqsUpTo(S, n - 1)
         IN  shorter \cup {Append(q, x) : q \in shorter, x \in S}

----------------------------------------------------------------------------
(* build_output_ods *)

\* the sheets of the document, doc.spreadsheet.getElementsByType(Table) (line 230)
Sheets(H, ss) == SelectSeq(H[ss].kids, LAMBDA k : H[k].tag = "table:table")

SheetNames(H, ss) == [i \in 1..Len(Sheets(H, ss)) |-> getAttribute(H[Sheets(H, ss)[i]], "name")]

\* the selection loop without line 234: the other sheets stay in the document
RECURSIVE select_sheet_keep(_, _, _, _, _)
select_sheet_keep(H, ss, tables, i, found) ==
    IF i > Len(tables) THEN [H |-> H, r |-> found]
    ELSE IF getAttribute(H[tables[i]], "name") = TxtPrintAll
         THEN select_sheet_keep(H, ss, tables, i + 1, tables[i])
         ELSE select_sheet_keep(H, ss, tables, i + 1, found)

\* lines 229-234: returns [H, r] with r the PRINT_ALL table or None
RECURSIVE select_sheet(_, _, _, _, _)
select_sheet(H, ss, tables, i, found) ==
    IF i > Len(tables) THEN [H |-> H, r |-> found]
    ELSE IF getAttribute(H[tables[i]], "name") = TxtPrintAll
         THEN select_sheet(H, ss, tables, i + 1, tables[i])
         ELSE select_sheet(removeChild(H, ss, tables[i]), ss, tables, i + 1, found)

\* line 238: [ensure_physical_row(print_all, idx) for idx in range(1, 32)]
RECURSIVE materialize_rows(_, _, _, _)
RECURSIVE materialize_next(_, _, _, _)
materialize_rows(H, table, idx, acc) ==
    IF Forced(H) /\ idx > BLOCK_ROWS THEN [H |-> H, rows |-> acc]
    ELSE materialize_next(ensure_physical_row(H, table, idx), table, idx, acc)

materialize_next(e, table, idx, acc) == materialize_rows(e.H, table, idx + 1, Append(acc, e.r))

NoLast == [op |-> "none"]

\* the output path before the run has written to it
NoOutput == [by |-> "none", sheets |-> <<>>]

Init ==
    /\ \E t \in 1..Len(Templates) : \E b \in {build(<<>>, Templates[t])} :
             /\ heap = b.H
             /\ spreadsheet = b.r
             /\ input \in IF t = 1 THEN SeqsUpTo(RecordChoices, MaxRecords)
                                        \cup {<<r>> : r \in ReconRecords}
                                        \cup {<<s, r>> : s \in SignalRecords,
                                                         r \in RecordChoices}
                          ELSE SeqsUpTo(RecordChoices, MaxRecords)
    /\ print_all = None
    /\ master_rows = <<>>
    /\ template_rows = <<>>
    /\ break_attrs = EmptyAttrs
    /\ total_records = 0
    /\ logs = <<>>
    /\ pc = "start"
    /\ saved = FALSE
    /\ output_file = NoOutput
    /\ log_file = <<>>
    /\ blocks = <<>>
    /\ last = NoLast
    /\ detached = <<>>
    /\ clones = {}
    /\ steps = 0
    /\ loaded = [rows |-> 0, attrs |-> EmptyAttrs, templates |-> <<>>, sheets |-> <<>>,
                 records |-> <<>>]

\* lines 241-242, br = [H, r] the outcome of ensure_physical_row(print_all, 1000)
setup_done(sel, m, tr, br) ==
    [pc |-> "records", H |-> br.H, print_all |-> sel.r, master_rows |-> m.rows,
     template_rows |-> tr.rows,
     break_attrs |-> IF br.r # None THEN br.H[br.r].attrs ELSE EmptyAttrs]

\* line 239, tr = [H, rows] the clones of the master rows
setup_break(sel, m, tr) ==
    setup_done(sel, m, tr, ensure_physical_row(tr.H, sel.r, BREAK_ROW))

\* the master rows before the first one that is None
RowsBeforeNone(rows) ==
    SubSeq(rows, 1, (CHOOSE i \in 1..Len(rows) :
                        rows[i] = None /\ \A j \in 1..(i - 1) : rows[j] # None) - 1)

\* line 239 raising at the first master row that is None, tr = [H, rows] the
\* clones made of the rows before it, which stay in the store
setup_raised(sel, tr) ==
    [pc |-> "crashed", H |-> tr.H, print_all |-> sel.r, master_rows |-> <<>>,
     template_rows |-> <<>>, break_attrs |-> EmptyAttrs]

\* line 238, m = [H, rows] the master rows; clone_node(None) raises on line 239
setup_rows(sel, m) ==
    IF \E i \in 1..Len(m.rows) : m.rows[i] = None
    THEN setup_raised(sel, clone_rows(m.H, RowsBeforeNone(m.rows), 1, <<>>))
    ELSE setup_break(sel, m, clone_rows(m.H, m.rows, 1, <<>>))

\* lines 235-236, sel = [H, r] the sheet selected
setup_sheet(sel) ==
    IF sel.r = None
    THEN [pc |-> "failed", H |-> sel.H, print_all |-> None, master_rows |-> <<>>,
          template_rows |-> <<>>, break_attrs |-> EmptyAttrs]
    ELSE setup_rows(sel, materialize_rows(sel.H, sel.r, 1, <<>>))

\* lines 229-244; returns the position reached and what was set up
setup(H, ss) ==
    setup_sheet(select_sheet(H, ss, Sheets(H, ss),
                             1, None))

\* line 224: the output path holds the template file, every sheet of it
copyfile(H, ss) == [by |-> "copyfile", sheets |-> SheetNames(H, ss)]

\* lines 220-244
Setup ==
    /\ pc = "start"
    /\ output_file' = copyfile(heap, spreadsheet)
    /\ \E s \in {setup(heap, spreadsheet)} :
          /\ pc' = s.pc
          /\ heap' = s.H
          /\ print_all' = s.print_all
          /\ master_rows' = s.master_rows
          /\ template_rows' = s.template_rows
          /\ break_attrs' = s.break_attrs
          /\ loaded' = IF s.print_all = None
                        THEN [loaded EXCEPT !.sheets = SheetNames(heap, spreadsheet),
                                            !.records = input]
                        ELSE [rows |-> TotalRows(heap, s.print_all),
                              attrs |-> heap[s.print_all].attrs,
                              templates |-> [j \in 1..Len(s.template_rows) |->
                                                Tree(s.H, s.template_rows[j])],
                              sheets |-> SheetNames(heap, spreadsheet),
                              records |-> input]
    /\ UNCHANGED <<spreadsheet, total_records, logs, input, saved, log_file, blocks, last,
                   detached, clones, steps>>

\* lines 265-339 on the block ob = [H, rows]; returns [H, logs, err, rows]
block_filled(fb, rows) == [H |-> fb.H, logs |-> fb.logs, err |-> fb.err, rows |-> rows]

fill_obtained(ob, L, record) == block_filled(fill_block(ob.H, L, ob.rows, record), ob.rows)

\* lines 249-339 for the record with ordinal n; returns [H, logs, err, rows]
process_record(H, L, table, masters, templates, brk, n, record) ==
    fill_obtained(obtain_block(H, table, masters, templates, brk, n), L, record)

\* lines 248-339, one record
ProcessRecord ==
    /\ pc = "records"
    /\ input # <<>>
    /\ \E p \in {process_record(heap, logs, print_all, master_rows, template_rows,
                                break_attrs, total_records + 1, Head(input))} :
          /\ total_records' = total_records + 1
          /\ heap' = p.H
          /\ logs' = p.logs
          /\ blocks' = Append(blocks, p.rows)
          /\ pc' = IF p.err THEN "crashed" ELSE "records"
    /\ input' = Tail(input)
    /\ UNCHANGED <<spreadsheet, print_all, master_rows, template_rows, break_attrs,
                   saved, output_file, log_file, last, detached, clones, steps, loaded>>

\* mutant: the range ends at the record count, not at the last row
print_range_records(end_row) ==
    <<"'">> \o TxtPrintAll \o <<"'", ".", "A", "1", ":", "'">> \o TxtPrintAll
        \o <<"'", ".", "R">> \o str(end_row \div BLOCK_ROWS)

print_range(end_row) ==
    <<"'">> \o TxtPrintAll \o <<"'", ".", "A", "1", ":", "'">> \o TxtPrintAll
        \o <<"'", ".", "R">> \o str(end_row)

SummaryRecord == [hdr |-> [f \in HDR_FIELDS |-> <<>>]]

\* bound of the model: the largest difference of the two clock readings, in
\* hundredths of a second; the clock puts no bound on it
MaxElapsed == 9

\* the elapsed times of the runs: time.time() - start_time on line 348 is
\* whatever the two clock readings give, below zero when the clock was set back
\* in between, and the format on line 360 rounds it to hundredths and keeps
\* the sign, of a difference that rounds to zero too; every value up to the
\* bound is a run's
ElapsedChoices == [neg : BOOLEAN, h : 0..MaxElapsed]

\* f"{elapsed:.2f}" for an elapsed time of e.h hundredths, below zero if e.neg
Fixed2(e) ==
    (IF e.neg THEN <<"-">> ELSE <<>>)
        \o str(e.h \div 100) \o <<".">> \o str((e.h % 100) \div Len(DigitChars))
        \o str(e.h % Len(DigitChars))

\* line 346: the output path holds the document as it is now
save(H, ss) == [by |-> "save", sheets |-> SheetNames(H, ss)]

\* lines 341-369, after the last record
Finish ==
    /\ pc = "records"
    /\ input = <<>>
    /\ heap' = IF total_records > 0
               THEN [heap EXCEPT ![print_all].attrs =
                        setAttribute(@, "print-ranges", print_range(total_records * BLOCK_ROWS))]
               ELSE heap
    /\ saved' = TRUE
    /\ output_file' = save(heap', spreadsheet)
    /\ \E elapsed \in ElapsedChoices :
       \E all \in {Append(logs, format_log_entry("SUMMARY", SummaryRecord,
                            << <<"TotalRecords", str(total_records)>>,
                               <<"ElapsedSeconds", Fixed2(elapsed)>>,
                               <<"Output", <<"o", "u", "t">>>> >>))} :
          /\ logs' = all
          /\ log_file' = all
    /\ pc' = "done"
    /\ UNCHANGED <<spreadsheet, print_all, master_rows, template_rows, break_attrs,
                   total_records, input, blocks, last, detached, clones, steps, loaded>>

Next == Setup \/ ProcessRecord \/ Finish

Spec == Init /\ [][Next]_vars

\* a step of the run moves its position or counts a record (every step of Next
\* does, and one is possible exactly at the positions "start" and "records")
Advance ==
    /\ pc \in {"start", "records"}
    /\ pc' \in {"records", "failed", "crashed", "done"}
    /\ total_records' \in {total_records, total_records + 1}

\* the run is one sequential pass: a step that can be taken is taken
FairSpec == Spec /\ WF_<<pc, total_records>>(Advance)

----------------------------------------------------------------------------
(* The operations of the grid and of the cell editor applied, in any order,  *)
(* to small tables                                                          *)

MaxOps == 3

\* row runs (repeat counts) of the small tables
GridRuns == {<<3>>, <<2, 2>>}

\* a repeated text cell
GridCellsA ==
    <<LitCell(3, <<"c", "e", "1">>, Attr1("value-type", TxtString), <<LitP(<<"t">>)>>)>>

\* an empty cell, then a repeated numeric cell
GridCellsB ==
    <<LitCell(1, <<"c", "e", "2">>, EmptyAttrs, <<>>),
      LitCell(2, <<"c", "e", "3">>,
              Merge(Attr1("value", <<"5">>),
                    Merge(Attr1("value-type", TxtFloat), Attr1("date-value", <<"2">>))),
              <<LitP(<<"5">>)>>)>>

GridTable(runs) ==
    LitDoc(<<LitTable(TxtPrintAll, EmptyAttrs,
                      [i \in 1..Len(runs) |->
                          LitRow(runs[i], Ro(i), IF i = 1 THEN GridCellsB ELSE GridCellsA)])>>)

OpTexts == {<<>>, <<"X">>}

OpBreakAttrs == Merge(Attr1("stylename", Ro(9)), Attr1("numberrowsrepeated", str(7)))

InitOps ==
    /\ \E runs \in GridRuns : \E b \in {build(<<>>, GridTable(runs))} :
          /\ heap = b.H
          /\ spreadsheet = b.r
          /\ print_all = b.H[b.r].kids[1]
    /\ master_rows = <<>>
    /\ template_rows = <<>>
    /\ break_attrs = EmptyAttrs
    /\ total_records = 0
    /\ logs = <<>>
    /\ pc = "ops"
    /\ input = <<>>
    /\ saved = FALSE
    /\ output_file = NoOutput
    /\ log_file = <<>>
    /\ blocks = <<>>
    /\ last = NoLast
    /\ detached = <<>>
    /\ clones = {}
    /\ steps = 0
    /\ loaded = [rows |-> 0, attrs |-> EmptyAttrs, templates |-> <<>>, sheets |-> <<>>,
                 records |-> <<>>]

\* the rows and cells an operation may be applied to
OpRows ==
    {n \in {iter_table_rows(heap, print_all)[i] : i \in 1..Len(iter_table_rows(heap, print_all))}
           \cup {detached[i] : i \in 1..Len(detached)} : heap[n].tag = "table:table-row"}

OpCells ==
    UNION {{iter_cells(heap, r)[i] : i \in 1..Len(iter_cells(heap, r))} : r \in OpRows}
    \cup {n \in {detached[i] : i \in 1..Len(detached)} : heap[n].tag = "table:table-cell"}

OpFrame == UNCHANGED <<spreadsheet, print_all, master_rows, template_rows, break_attrs,
                       total_records, logs, pc, input, saved, output_file, log_file, blocks,
                       loaded>>

\* history: whether the call repeats the call before it, and what that one did
Again(op, parent, index) ==
    IF last.op = op /\ last.parent = parent /\ last.index = index
    THEN (IF last.ret = None THEN "after none"
          ELSE IF last.ret # last.found THEN "after split" ELSE "after hit")
    ELSE "no"

OpEnsureRow ==
    /\ pc = "ops" /\ steps < MaxOps
    /\ \E k \in 1..(TotalRows(heap, print_all) + 1) :
       \E e \in {ensure_physical_row(heap, print_all, k)} :
          /\ heap' = e.H
          /\ last' = [op |-> "ensure_physical_row", parent |-> print_all, index |-> k,
                      ret |-> e.r, total |-> TotalRows(heap, print_all),
                      found |-> find_row_at_index(heap, print_all, k),
                      again |-> Again("ensure_physical_row", print_all, k)]
    /\ steps' = steps + 1
    /\ UNCHANGED <<detached, clones>>
    /\ OpFrame

OpEnsureCell ==
    /\ pc = "ops" /\ steps < MaxOps
    /\ \E row \in OpRows : \E k \in 1..(TotalCols(heap, row) + 1) :
       \E e \in {ensure_cell(heap, row, k)} :
          /\ heap' = e.H
          /\ last' = [op |-> "ensure_cell", parent |-> row, index |-> k,
                      ret |-> e.r, total |-> TotalCols(heap, row),
                      found |-> CellAt(heap, row, k),
                      again |-> Again("ensure_cell", row, k)]
    /\ steps' = steps + 1
    /\ UNCHANGED <<detached, clones>>
    /\ OpFrame

\* written: the cell was cleared, then given a non-empty text, and is cleared
\* now; base: its structure between that clear and that write
OpClear ==
    /\ pc = "ops" /\ steps < MaxOps
    /\ \E cell \in OpCells :
          /\ heap' = clear_cell_content(heap, cell)
          /\ last' = [op |-> "clear_cell_content", cell |-> cell,
                      before |-> Tree(heap, cell),
                      after_clear |-> last.op = "clear_cell_content" /\ last.cell = cell,
                      written |-> last.op = "set_cell_text" /\ last.cell = cell
                                  /\ last.text # <<>> /\ last.cleared,
                      base |-> IF last.op = "set_cell_text" THEN last.before
                               ELSE Tree(heap, cell)]
    /\ steps' = steps + 1
    /\ UNCHANGED <<detached, clones>>
    /\ OpFrame

OpSetText ==
    /\ pc = "ops" /\ steps < MaxOps
    /\ \E cell \in OpCells : \E text \in OpTexts :
       \E w \in {set_cell_text(heap, cell, text)} :
          /\ heap' = w.H
          /\ last' = [op |-> "set_cell_text", cell |-> cell, text |-> text,
                      before |-> Tree(heap, cell),
                      cleared |-> last.op = "clear_cell_content" /\ last.cell = cell]
    /\ steps' = steps + 1
    /\ UNCHANGED <<detached, clones>>
    /\ OpFrame

OpClone ==
    /\ pc = "ops" /\ steps < MaxOps
    /\ \E node \in OpRows \cup OpCells : \E c \in {clone_node(heap, node)} :
          /\ heap' = c.H
          /\ detached' = Append(detached, c.r)
          /\ clones' = clones \cup {<<node, c.r>>}
          /\ last' = [op |-> "clone_node", node |-> node, ret |-> c.r]
    /\ steps' = steps + 1
    /\ OpFrame

OpPageBreak ==
    /\ pc = "ops" /\ steps < MaxOps
    /\ \E row \in OpRows :
          /\ heap' = apply_page_break(heap, row, OpBreakAttrs)
          /\ last' = [op |-> "apply_page_break", row |-> row, before |-> Tree(heap, row)]
    /\ steps' = steps + 1
    /\ UNCHANGED <<detached, clones>>
    /\ OpFrame

NextOps == OpEnsureRow \/ OpEnsureCell \/ OpClear \/ OpSetText \/ OpClone \/ OpPageBreak

SpecOps == InitOps /\ [][NextOps]_vars

\* the runs of the program together with the operations on small tables
SpecAll == (Init \/ InitOps) /\ [][Next \/ NextOps]_vars

----------------------------------------------------------------------------
(* Properties *)

EnsureOps == {"ensure_physical_row", "ensure_cell"}

\* the run sequence (repeat counts) below the parent of the last ensure call
LastRuns ==
    IF last.op = "ensure_physical_row" THEN RowRuns(heap, last.parent)
    ELSE CellRuns(heap, last.parent)

LastResolved ==
    IF last.op = "ensure_physical_row" THEN RowAt(heap, last.parent, last.index)
    ELSE CellAt(heap, last.parent, last.index)

LastRepeat ==
    IF last.op = "ensure_physical_row" THEN row_repeat_count(heap, last.ret)
    ELSE cell_repeat_count(heap, last.ret)

\* C1: after ensure_physical_row(table, k) or ensure_cell(row, k) with 1 <= k <= N
\* (N the sum of the repeat counts before the call) the repeat counts still sum to
\* N, and logical position k resolves to the returned node, whose repeat count is 1.
C1_SplitKeepsCountAndResolves ==
    (last.op \in EnsureOps /\ 1 <= last.index /\ last.index <= last.total)
        => /\ SumSeq(LastRuns) = last.total
           /\ last.ret # None
           /\ LastResolved = last.ret
           /\ LastRepeat = 1

\* a run of repeat 3 or more split at an inner position: before, target and after
C1_Witness ==
    /\ last.op = "ensure_physical_row"
    /\ last.ret # last.found
    /\ 1 < last.index /\ last.index < last.total
    /\ Len(LastRuns) = 3
    /\ LastRuns[1] > 0 /\ LastRuns[3] > 0

BlockStart(k) == 1 + (k - 1) * BLOCK_ROWS

\* C2: the block of every processed record k occupies logical rows 1+(k-1)*31 ..
\* k*31 of the sheet, row by row in template order, and keeps doing so while later
\* records are processed; block 1 is the resident rows materialized during setup,
\* every later block consists of nodes of its own, cloned from the template rows.
C2_BlocksInPlace ==
    \A k \in 1..Len(blocks) :
        /\ Len(blocks[k]) = BLOCK_ROWS
        /\ \A j \in 1..BLOCK_ROWS :
              /\ RowAt(heap, print_all, BlockStart(k) + j - 1) = blocks[k][j]
              /\ row_repeat_count(heap, blocks[k][j]) = 1
              /\ j > 1 => attrs_pop(heap[blocks[k][j]].attrs, "numberrowsrepeated")
                            = attrs_pop(heap[template_rows[j]].attrs, "numberrowsrepeated")
        /\ k = 1 => blocks[k] = master_rows
        /\ k > 1 => \A j \in 1..BLOCK_ROWS :
                        /\ \A i \in 1..BLOCK_ROWS :
                              blocks[k][j] # master_rows[i] /\ blocks[k][j] # template_rows[i]
                        /\ \A k2 \in 1..(k - 1) : \A i \in 1..BLOCK_ROWS :
                              blocks[k][j] # blocks[k2][i]

\* two records processed on a template whose rows 1..31 are several runs
C2_Witness ==
    /\ pc = "done"
    /\ Len(blocks) >= 2
    /\ RowAt(heap, print_all, BlockStart(2)) = blocks[2][1]
    /\ heap[template_rows[1]].attrs # heap[template_rows[2]].attrs

\* C3 as stated: after N >= 1 records the sheet has exactly N*31 logical rows,
\* for a template that has logical rows 1..31 and a logical row 1000.
C3_RowCountIsRecordsTimesBlock ==
    (pc = "done" /\ total_records >= 1 /\ loaded.rows >= BREAK_ROW)
        => TotalRows(heap, print_all) = total_records * BLOCK_ROWS

\* C3 amended: after N >= 1 records the sheet has T + 31*(N-1) logical rows, T the
\* row count of the template sheet: the blocks are rows 1..N*31 and the template's
\* rows after row 31 follow them.
C3_RowCountGrowsByBlock ==
    (pc = "done" /\ total_records >= 1)
        => TotalRows(heap, print_all) = loaded.rows + BLOCK_ROWS * (total_records - 1)

C3_Witness ==
    /\ pc = "done"
    /\ total_records >= 2
    /\ loaded.rows >= BREAK_ROW

\* C4: at the end of the run the print range of the sheet is A1:R{N*31} of
\* PRINT_ALL exactly when N >= 1 records were processed; with no record the
\* sheet's attributes are those of the template.
C4_PrintRange ==
    pc = "done" =>
        /\ (getAttribute(heap[print_all], "print-ranges")
              = <<"'">> \o TxtPrintAll \o <<"'", ".", "A", "1", ":", "'">> \o TxtPrintAll
                  \o <<"'", ".", "R">> \o str(total_records * BLOCK_ROWS))
            <=> total_records >= 1
        /\ total_records = 0 => heap[print_all].attrs = loaded.attrs
        /\ total_records >= 1 =>
              attrs_pop(heap[print_all].attrs, "print-ranges")
                = attrs_pop(loaded.attrs, "print-ranges")

\* two records on a template that came with a print range of its own
C4_Witness ==
    /\ pc = "done"
    /\ total_records = 2
    /\ "print-ranges" \in DOMAIN loaded.attrs
    /\ getAttribute(heap[print_all], "print-ranges") # loaded.attrs["print-ranges"]

\* the attributes that carry a cell's value; set_cell_text stores the value
\* type under "valuetype"
ValueBearing == {"value", "value-type", "valuetype", "date-value"}

\* C5: after clear_cell_content(cell), whatever the cell held (a cell written
\* by set_cell_text included), the cell has no content children and none of the
\* value-bearing attributes, and every other attribute is unchanged.
C5_ClearEmptiesCell ==
    last.op = "clear_cell_content" =>
        /\ heap[last.cell].kids = <<>>
        /\ (DOMAIN heap[last.cell].attrs) \cap ValueBearing = {}
        /\ (DOMAIN heap[last.cell].attrs) \subseteq DOMAIN last.before.attrs
        /\ \A k \in (DOMAIN last.before.attrs) \ ValueBearing :
              /\ k \in DOMAIN heap[last.cell].attrs
              /\ heap[last.cell].attrs[k] = last.before.attrs[k]

\* C6: clear_cell_content on a cell that was just cleared changes nothing, and
\* clear_cell_content; set_cell_text(X); clear_cell_content with X non-empty
\* leaves the cell with the children and attributes it had after the first
\* clear.
C6_ClearIdempotentAndUndoesWrite ==
    last.op = "clear_cell_content" =>
        /\ last.after_clear => Tree(heap, last.cell) = last.before
        /\ last.written => Tree(heap, last.cell) = last.base

\* the node an operation of the small tables was applied to
LastTarget(l) ==
    CASE l.op \in {"clear_cell_content", "set_cell_text"} -> l.cell
      [] l.op \in EnsureOps -> l.parent
      [] l.op = "apply_page_break" -> l.row
      [] OTHER -> None

\* the copy made by a clone_node step equals its source and shares no node with
\* it; a step applied inside a copy leaves the source as it was, and one applied
\* inside a source leaves the copy as it was
CloneStep ==
    /\ last'.op = "clone_node" /\ last' # last =>
          /\ Tree(heap', last'.ret) = Tree(heap, last'.node)
          /\ Tree(heap', last'.node) = Tree(heap, last'.node)
          /\ Reach(heap', last'.ret) \cap Reach(heap', last'.node) = {}
    /\ \A p \in clones :
          /\ LastTarget(last') \in Reach(heap, p[2]) => Tree(heap', p[1]) = Tree(heap, p[1])
          /\ LastTarget(last') \in Reach(heap, p[1]) => Tree(heap', p[2]) = Tree(heap, p[2])

\* the template rows are as they were captured; at capture they equal the rows
\* they were cloned from
TemplatesKept ==
    /\ \A j \in 1..Len(template_rows) :
          Tree(heap, template_rows[j]) = loaded.templates[j]
    /\ (pc = "records" /\ total_records = 0) =>
          \A j \in 1..Len(template_rows) :
              Tree(heap, template_rows[j]) = Tree(heap, master_rows[j])

\* C7: clone_node returns a structurally equal, independent copy: a later
\* mutation of the copy (clearing or setting a cell, splitting a cell run,
\* changing an attribute) leaves the source's children and attributes unchanged,
\* and vice versa; the captured template rows stay unchanged from their capture
\* to the end of the run.
C7_CloneIndependent == [][CloneStep]_vars /\ []TemplatesKept

\* a cell inside a copy was given a text, so that copy and source now differ
C7_Witness ==
    /\ last.op = "set_cell_text"
    /\ last.text # <<>>
    /\ \E p \in clones :
          /\ last.cell \in Reach(heap, p[2])
          /\ last.cell # p[2]
          /\ Tree(heap, p[1]) # Tree(heap, p[2])

\* a step that processes one record to its end
RecordStep ==
    pc = "records" /\ input # <<>> /\ total_records' = total_records + 1 /\ pc' = "records"

\* the log entries a step adds
NewEntries == SubSeq(logs', Len(logs) + 1, Len(logs'))

EntriesOf(entries, reason) == SelectSeq(entries, LAMBDA e : e.Reason = reason)

\* the amount, in hundredths, each total text of the inputs stands for: 0 for a
\* text that is empty or is not a number
Amount(text) ==
    CASE text = Txt999 -> 999
      [] text = Txt1998 -> 1998
      [] text = Txt1999 -> 1999
      [] text = <<"5">> -> 500
      [] text = <<"$", "1", ",", "0", "0", "0">> -> 100000
      [] text = <<" ", "1", "0", "0", "0", ".", "0">> -> 100000
      [] OTHER -> 0

\* the total texts of the inputs that are neither empty nor a number
NotNumbers == {<<"x">>, <<"5", ".", "5", ".">>, <<"x", "/", "x">>}

ItemsAmount(record) == SumSeq([i \in FIRST_ITEM..LAST_ITEM |-> Amount(record.prod[i]["Total"])])

\* the hundredths a logged decimal text (at most two decimals) stands for
Hundredths(text) ==
    LET neg == text[1] = "-"
        u == IF neg THEN Tail(text) ELSE text
        dots == {i \in 1..Len(u) : u[i] = "."}
        dot == IF dots = {} THEN Len(u) + 1 ELSE CHOOSE i \in dots : TRUE
        frac == SubSeq(u, dot + 1, Len(u)) \o <<"0", "0">>
        v == int(SubSeq(u, 1, dot - 1)) * 100 + int(SubSeq(frac, 1, 2))
    IN  IF neg THEN 0 - v ELSE v

\* C8: a record gets exactly one TOTAL_MISMATCH entry if the sum of the parsed
\* totals of line items 1..16 differs from the parsed grand total and none if they
\* are equal; the entry's Diff is the grand total minus the line-item sum, a value
\* that is empty or not a number counting as 0.
C8_Step ==
    RecordStep =>
        LET record == Head(input)
            mismatches == EntriesOf(NewEntries, "TOTAL_MISMATCH")
        IN  /\ Len(mismatches) =
                  IF ItemsAmount(record) # Amount(record.hdr["Grand Total"]) THEN 1 ELSE 0
            /\ \A i \in 1..Len(mismatches) :
                  /\ mismatches[i].extra[1][1] = "Sum(Product Totals)"
                  /\ Hundredths(mismatches[i].extra[1][2]) = ItemsAmount(record)
                  /\ mismatches[i].extra[2][1] = "Diff"
                  /\ Hundredths(mismatches[i].extra[2][2])
                        = Amount(record.hdr["Grand Total"]) - ItemsAmount(record)

C8_MismatchLogged == [][C8_Step]_vars

\* line items summing to 19.98 against a grand total of 19.99: Diff=0.01
C8_Witness ==
    /\ pc = "done"
    /\ \E i \in 1..Len(logs) :
          /\ logs[i].Reason = "TOTAL_MISMATCH"
          /\ logs[i].extra[1][2] = Txt1998
          /\ logs[i].extra[2][2] = <<"0", ".", "0", "1">>

\* the PARSE_ERROR entries among es that name a field
ErrorsNaming(es, field) ==
    SelectSeq(es, LAMBDA e : e.Reason = "PARSE_ERROR" /\ e.extra[1][2] = field)

\* C9: for every total field of a record (Product 1..16 Total, Grand Total): a
\* text that is neither empty nor a number gets exactly one PARSE_ERROR entry
\* naming the field and counts as 0 in the sum and in the mismatch comparison; an
\* empty text or a number gets no PARSE_ERROR entry.
C9_Step ==
    RecordStep =>
        LET record == Head(input)
            errors == EntriesOf(NewEntries, "PARSE_ERROR")
            mismatches == EntriesOf(NewEntries, "TOTAL_MISMATCH")
            bad_items == {i \in FIRST_ITEM..LAST_ITEM : record.prod[i]["Total"] \in NotNumbers}
            bad_grand == record.hdr["Grand Total"] \in NotNumbers
        IN  /\ \A i \in FIRST_ITEM..LAST_ITEM :
                  LET named == ErrorsNaming(errors, <<"Product", i, "Total">>)
                  IN  /\ Len(named) = IF i \in bad_items THEN 1 ELSE 0
                      /\ \A n \in 1..Len(named) :
                            named[n].extra[2][2] = record.prod[i]["Total"]
            /\ Len(ErrorsNaming(errors, <<"Grand Total">>)) = IF bad_grand THEN 1 ELSE 0
            /\ Len(errors) = Cardinality(bad_items) + IF bad_grand THEN 1 ELSE 0
            /\ (bad_items # {} \/ bad_grand) =>
                  /\ (mismatches # <<>>) <=>
                        SumSeq([i \in FIRST_ITEM..LAST_ITEM |->
                                   IF i \in bad_items THEN 0
                                   ELSE Amount(record.prod[i]["Total"])])
                          # (IF bad_grand THEN 0 ELSE Amount(record.hdr["Grand Total"]))
                  /\ \A n \in 1..Len(mismatches) :
                        Hundredths(mismatches[n].extra[1][2])
                          = SumSeq([i \in FIRST_ITEM..LAST_ITEM |->
                                       IF i \in bad_items THEN 0
                                       ELSE Amount(record.prod[i]["Total"])])

C9_ParseErrorLogged == [][C9_Step]_vars

\* a grand total that is not a number against line items summing to 19.98: a
\* PARSE_ERROR for the grand total, and a mismatch against 0
C9_Witness ==
    /\ pc = "done"
    /\ \E i \in 1..Len(logs) :
          /\ logs[i].Reason = "PARSE_ERROR"
          /\ logs[i].extra[1][2] = <<"Grand Total">>
          /\ logs[i].extra[2][2] = <<"x", "/", "x">>
    /\ \E i \in 1..Len(logs) :
          /\ logs[i].Reason = "TOTAL_MISMATCH"
          /\ logs[i].extra[2][2] = <<"-", "1", "9", ".", "9", "8">>

\* the record without its line items 17..25
WithoutOverflow(record) ==
    [record EXCEPT !.prod = [i \in DOMAIN @ |-> IF i >= FIRST_OVERFLOW THEN EmptyItem ELSE @[i]]]

\* C10: a record gets exactly one HAS_PRODUCT_17_25 entry if one of the five
\* fields of a line item 17..25 is non-empty after trimming and none otherwise,
\* whatever line items 1..16 hold; the data of items 17..25 reaches no cell: the
\* document is the one the record without these items produces.
C10_Step ==
    RecordStep =>
        LET record == Head(input)
        IN  /\ Len(EntriesOf(NewEntries, "HAS_PRODUCT_17_25")) =
                  IF \E i \in FIRST_OVERFLOW..LAST_OVERFLOW :
                        \E f \in DOMAIN record.prod[i] :
                           \E n \in 1..Len(record.prod[i][f]) : record.prod[i][f][n] # " "
                  THEN 1 ELSE 0
            /\ heap' = process_record(heap, logs, print_all, master_rows, template_rows,
                                      break_attrs, total_records + 1,
                                      WithoutOverflow(record)).H

C10_OverflowLogged == [][C10_Step]_vars

\* a record holding nothing but the name of line item 20
C10_Witness ==
    /\ pc = "done"
    /\ total_records = 1
    /\ logs[1].Reason = "HAS_PRODUCT_17_25"
    /\ \A i \in 1..Len(logs[1].base) : logs[1].base[i][2] = <<>>
    /\ \A i \in FIRST_ITEM..LAST_ITEM : \A k \in {3, 6, 12, 14, 15} :
          TextOf(heap, CellAt(heap, blocks[1][ITEM_ROW_OFFSET + i], k)) = <<>>

-----------------------------------------------------------------------------
(* Sheet selection *)

Selected == pc \in {"records", "crashed", "done"}

HasPrintAll(names) == \E i \in 1..Len(names) : names[i] = TxtPrintAll

\* what C11 says of the run in both cases but for the output path: without a
\* sheet named PRINT_ALL the run fails before any record is processed, doc.save
\* is not reached and no log entry is written; otherwise, once the sheet is
\* selected, the sheets left in the document are exactly the ones named
\* PRINT_ALL, the selected one among them
SelectionOutcome ==
    /\ pc # "start" => (pc = "failed" <=> ~HasPrintAll(loaded.sheets))
    /\ pc = "failed" =>
          /\ total_records = 0
          /\ blocks = <<>>
          /\ ~saved
          /\ logs = <<>>
          /\ log_file = <<>>
    /\ Selected =>
          /\ SheetNames(heap, spreadsheet) =
                 SelectSeq(loaded.sheets, LAMBDA n : n = TxtPrintAll)
          /\ \E i \in 1..Len(Sheets(heap, spreadsheet)) :
                 Sheets(heap, spreadsheet)[i] = print_all

\* C11 as stated: a document without a sheet named PRINT_ALL makes the run fail
\* before any record is processed, with nothing saved, the output path not
\* written at all, and no log entry written; otherwise, once the sheet is
\* selected, every sheet not named PRINT_ALL is removed and PRINT_ALL is kept.
C11_NothingSaved ==
    /\ SelectionOutcome
    /\ pc = "failed" => output_file = NoOutput

\* C11 amended: a document without a sheet named PRINT_ALL makes the run fail
\* before any record is processed, with no log entry written and doc.save not
\* reached, but the output path already holds the copy of the template made
\* before the document was loaded, with every sheet of it; otherwise, once the
\* sheet is selected, every sheet not named PRINT_ALL is removed from the
\* document and PRINT_ALL is kept, and the output path holds the full copy until
\* doc.save replaces it by the document.
C11_SheetSelection ==
    /\ SelectionOutcome
    /\ pc = "failed" =>
          /\ output_file.by = "copyfile"
          /\ output_file.sheets = loaded.sheets
          /\ ~HasPrintAll(output_file.sheets)
    /\ (Selected /\ ~saved) =>
          /\ output_file.by = "copyfile"
          /\ output_file.sheets = loaded.sheets
    /\ saved =>
          /\ output_file.by = "save"
          /\ output_file.sheets = SheetNames(heap, spreadsheet)

\* the run that failed on a document holding only another sheet, which the
\* output path holds
C11_Witness ==
    /\ pc = "failed"
    /\ loaded.sheets = <<TxtData>>
    /\ print_all = None
    /\ output_file = [by |-> "copyfile", sheets |-> <<TxtData>>]

\* a run that dropped two other sheets and kept PRINT_ALL
C11_Kept ==
    /\ Selected
    /\ Len(loaded.sheets) = 3
    /\ SheetNames(heap, spreadsheet) = <<TxtPrintAll>>

-----------------------------------------------------------------------------
(* Completion of the run *)

\* the last entry of the log is the SUMMARY entry counting n records
EndsWithSummary(L, n) ==
    /\ L # <<>>
    /\ L[Len(L)].Reason = "SUMMARY"
    /\ L[Len(L)].extra[1][1] = "TotalRecords"
    /\ L[Len(L)].extra[1][2] = str(n)

\* C12: no record aborts the run: every record read is processed to its end and
\* gets its block, the run reaches the save step, and it ends with every record
\* processed and a SUMMARY entry whose TotalRecords is the number of records.
C12_RunCompletes ==
    /\ [][(pc = "records" /\ input # <<>>) =>
              /\ pc' = "records"
              /\ total_records' = total_records + 1
              /\ Len(blocks') = Len(blocks) + 1]_vars
    /\ [](pc = "done" =>
              /\ saved
              /\ input = <<>>
              /\ Len(blocks) = total_records
              /\ EndsWithSummary(log_file, total_records))
    /\ (pc = "records" ~> pc = "done")

\* the run stopped in its first record, the second one unread and nothing saved
C12_Aborted ==
    /\ pc = "crashed"
    /\ total_records = 1
    /\ Len(input) = 1
    /\ ~saved
    /\ log_file = <<>>

-----------------------------------------------------------------------------
(* Page break *)

\* C13: the first row of the block of every record n >= 2 carries every
\* attribute captured from logical row 1000 except the repeat count, which is
\* the row's own as cloned from template row 1 (a count of 1), next to the
\* attributes of template row 1 that row 1000 does not have; the first row of
\* the first record's block keeps the attributes of template row 1.
C13_PageBreakStamped ==
    \A n \in 1..Len(blocks) :
        LET a == heap[blocks[n][1]].attrs
            t == heap[template_rows[1]].attrs
            captured == (DOMAIN break_attrs) \ {"numberrowsrepeated"}
        IN  /\ row_repeat_count(heap, blocks[n][1]) = 1
            /\ n = 1 => a = t
            /\ n >= 2 =>
                  /\ DOMAIN a = (DOMAIN t) \cup captured
                  /\ \A k \in DOMAIN a : a[k] = IF k \in captured THEN break_attrs[k] ELSE t[k]

\* a second block whose first row took the style of row 1000 and not its repeat count
C13_Witness ==
    /\ pc = "done"
    /\ Len(blocks) >= 2
    /\ "numberrowsrepeated" \in DOMAIN break_attrs
    /\ "numberrowsrepeated" \notin DOMAIN heap[blocks[2][1]].attrs
    /\ heap[blocks[2][1]].attrs["stylename"] = break_attrs["stylename"]
    /\ heap[blocks[1][1]].attrs["stylename"] # break_attrs["stylename"]

-----------------------------------------------------------------------------
(* Row lookup *)

\* the positions looked up: the first ones, the block boundaries, row 1000 and
\* the ones around the end of the sheet
ProbeRows(total) ==
    {1, 2, 3, 4, 5, BLOCK_ROWS, BLOCK_ROWS + 1, 2 * BLOCK_ROWS, 2 * BLOCK_ROWS + 1,
     BREAK_ROW, total, total + 1, total + BLOCK_ROWS} \ {0}

\* C14: find_row_at_index(table, i) returns the run whose logical interval
\* contains i when 1 <= i <= total logical rows and None when i is greater than
\* the total; the caller's step splits no run and changes no repeat count: the
\* rows of the sheet after it are the rows before it with the new block put
\* right before the run found, or at the end of the sheet when none was found.
C14_FindRow ==
    /\ [](print_all # None =>
            \A i \in ProbeRows(TotalRows(heap, print_all)) :
                IF i <= TotalRows(heap, print_all)
                THEN /\ find_row_at_index(heap, print_all, i) # None
                     /\ find_row_at_index(heap, print_all, i) = RowAt(heap, print_all, i)
                ELSE find_row_at_index(heap, print_all, i) = None)
    /\ [][(pc = "records" /\ total_records >= 1 /\ total_records' = total_records + 1) =>
            LET found == find_row_at_index(heap, print_all, BlockStart(total_records'))
                old == iter_table_rows(heap, print_all)
                new == iter_table_rows(heap', print_all)
                block == blocks'[total_records']
            IN  /\ found = None <=> BlockStart(total_records') > TotalRows(heap, print_all)
                /\ found = None => new = old \o block
                /\ found # None =>
                      \E j \in 1..Len(old) :
                          /\ old[j] = found
                          /\ new = SubSeq(old, 1, j - 1) \o block \o SubSeq(old, j, Len(old))
                /\ \A j \in 1..Len(old) :
                      row_repeat_count(heap', old[j]) = row_repeat_count(heap, old[j])]_vars

\* on a sheet of exactly 31 rows the second block went to the end of the sheet
C14_Witness ==
    /\ pc = "done"
    /\ loaded.rows = BLOCK_ROWS
    /\ Len(blocks) = 2
    /\ TotalRows(heap, print_all) = 2 * BLOCK_ROWS
    /\ iter_table_rows(heap, print_all)[2 * BLOCK_ROWS] = blocks[2][BLOCK_ROWS]

-----------------------------------------------------------------------------
(* Run lengths *)

\* the runs a split of position k leaves of a run sequence
SplitAt(runs, k) ==
    LET j == RunAt(runs, k)
        o == k - 1 - SumSeq(SubSeq(runs, 1, j - 1))
        R == runs[j]
    IN  SubSeq(runs, 1, j - 1)
            \o (IF o > 0 THEN <<o>> ELSE <<>>)
            \o <<1>>
            \o (IF R - o - 1 > 0 THEN <<R - o - 1>> ELSE <<>>)
            \o SubSeq(runs, j + 1, Len(runs))

\* C15: every row run of the sheet and every cell run of its rows has a repeat
\* count >= 1 in every state; ensure_physical_row and ensure_cell at a position k
\* inside a run of repeat R, at offset o, leave in its place a before-run of
\* repeat o if o > 0, a run of repeat 1, and an after-run of repeat R-o-1 if
\* R-o-1 > 0, in that order, and leave every other run as it was.
C15_RunsPositive ==
    /\ [](print_all # None =>
            /\ \A i \in 1..Len(RowRuns(heap, print_all)) : RowRuns(heap, print_all)[i] >= 1
            /\ \A i \in 1..Len(iter_table_rows(heap, print_all)) :
                  \A j \in 1..Len(CellRuns(heap, iter_table_rows(heap, print_all)[i])) :
                      CellRuns(heap, iter_table_rows(heap, print_all)[i])[j] >= 1)
    /\ [][(steps' = steps + 1 /\ last'.op \in EnsureOps /\ last'.index <= last'.total) =>
            IF last'.op = "ensure_physical_row"
            THEN RowRuns(heap', last'.parent) = SplitAt(RowRuns(heap, last'.parent), last'.index)
            ELSE CellRuns(heap', last'.parent)
                    = SplitAt(CellRuns(heap, last'.parent), last'.index)]_vars

\* a cell run split at its first position: no before-run, the target, an after-run
C15_Witness ==
    /\ last.op = "ensure_cell"
    /\ last.ret # last.found
    /\ last.index = 1
    /\ iter_cells(heap, last.parent)[1] = last.ret
    /\ CellRuns(heap, last.parent)[1] = 1
    /\ CellRuns(heap, last.parent)[2] = cell_repeat_count(heap, last.found) - 1

-----------------------------------------------------------------------------
(* Idempotence of the materialization *)

\* C16: ensure_physical_row and ensure_cell at an index whose run already has
\* repeat count 1 return that run's node and change nothing; a second call with
\* the same index right after a first returns the node the first returned and
\* changes nothing.
C16_EnsureIdempotent ==
    [][(steps' = steps + 1 /\ last'.op \in EnsureOps) =>
          /\ (/\ last'.found # None
              /\ (IF last'.op = "ensure_physical_row"
                  THEN row_repeat_count(heap, last'.found)
                  ELSE cell_repeat_count(heap, last'.found)) = 1)
                => (last'.ret = last'.found /\ heap' = heap)
          /\ (last.op = last'.op /\ last.parent = last'.parent /\ last.index = last'.index)
                => (last'.ret = last.ret /\ heap' = heap)]_vars

\* a call that split a run, made again: the same node, found in place
C16_Witness ==
    /\ last.op \in EnsureOps
    /\ last.again = "after split"
    /\ last.ret = last.found
    /\ last.ret # None
    /\ LastResolved = last.ret
    /\ LastRepeat = 1

-----------------------------------------------------------------------------
(* Order of the log *)

\* the place of an entry among the entries of one record
Rank(e) ==
    CASE e.Reason = "PARSE_ERROR" /\ Len(e.extra[1][2]) = 3 -> e.extra[1][2][2]
      [] e.Reason = "PARSE_ERROR" /\ Len(e.extra[1][2]) = 1 -> LAST_ITEM + 1
      [] e.Reason = "TOTAL_MISMATCH" -> LAST_ITEM + 2
      [] e.Reason = "HAS_PRODUCT_17_25" -> LAST_ITEM + 3
      [] OTHER -> LAST_ITEM + 4

Reasons(L) == [i \in 1..Len(L) |-> L[i].Reason]

\* C17: the log only grows at its end; the entries a record adds carry that
\* record's fields and come in the order PARSE_ERROR of the line-item totals by
\* index, PARSE_ERROR of the Grand Total, TOTAL_MISMATCH, HAS_PRODUCT_17_25, each
\* at most once (so the entries of an earlier record precede those of a later
\* one); no step but the final one adds a SUMMARY entry, and a completed run has
\* exactly one, the last entry of the log and of the log file.
C17_LogOrdered ==
    /\ [][/\ Len(logs') >= Len(logs)
          /\ \A i \in 1..Len(logs) :
                /\ logs'[i].Reason = logs[i].Reason
                /\ logs'[i].base = logs[i].base
                /\ Len(logs'[i].extra) = Len(logs[i].extra)
          /\ total_records' = total_records + 1 =>
                \A i \in 1..Len(NewEntries) :
                    /\ NewEntries[i].Reason
                          \in {"PARSE_ERROR", "TOTAL_MISMATCH", "HAS_PRODUCT_17_25"}
                    /\ \A f \in 1..Len(BASE_FIELDS) :
                          NewEntries[i].base[f] = <<BASE_FIELDS[f], Head(input).hdr[BASE_FIELDS[f]]>>
                    /\ i > 1 => Rank(NewEntries[i - 1]) < Rank(NewEntries[i])
          /\ total_records' = total_records =>
                Reasons(NewEntries) = IF pc' = "done" THEN <<"SUMMARY">> ELSE <<>>]_vars
    /\ [](/\ pc # "done" => log_file = <<>>
          /\ pc = "done" =>
                /\ Reasons(log_file) = Reasons(logs)
                /\ Len(EntriesOf(log_file, "SUMMARY")) = 1
                /\ log_file[Len(log_file)].Reason = "SUMMARY")

\* a record with a line-item total and a grand total that are not numbers, a
\* mismatch and a line item 20: four entries, then the SUMMARY entry
C17_Witness ==
    /\ pc = "done"
    /\ Reasons(log_file) = <<"PARSE_ERROR", "PARSE_ERROR", "TOTAL_MISMATCH",
                             "HAS_PRODUCT_17_25", "SUMMARY">>
    /\ Rank(log_file[1]) = FIRST_ITEM
    /\ Rank(log_file[2]) = LAST_ITEM + 1

\* two records with three entries each, the first record's entries first
C17_TwoRecords ==
    /\ pc = "done"
    /\ Reasons(log_file) = <<"PARSE_ERROR", "TOTAL_MISMATCH", "HAS_PRODUCT_17_25",
                             "PARSE_ERROR", "TOTAL_MISMATCH", "HAS_PRODUCT_17_25", "SUMMARY">>

-----------------------------------------------------------------------------
(* Content of the line-item cells *)

\* the text a field of the inputs shows once written: without the spaces around
\* it and, for a numeric field, without "," and "$"
Shown(text) ==
    CASE text = <<"1", ",", "0">> -> <<"1", "0">>
      [] text = <<"$", "5">> -> <<"5">>
      [] text = <<"$", "1", ",", "0", "0", "0">> -> <<"1", "0", "0", "0">>
      [] text = <<" ">> -> <<>>
      [] OTHER -> text

\* the line-item columns C, F, L, N, O and the field each one shows
ItemColumns ==
    {<<3, "SKU">>, <<6, "Name">>, <<12, "Quantity">>, <<14, "Price">>, <<15, "Total">>}

RECURSIVE TreeText(_)
TreeText(t) ==
    IF t.tag = "#text" THEN t.data
    ELSE LET cat[i \in 0..Len(t.kids)] ==
                 IF i = 0 THEN <<>> ELSE cat[i - 1] \o TreeText(t.kids[i])
         IN  cat[Len(t.kids)]

\* the text at logical column k of a row given as a structure
TreeCellText(row, k) ==
    LET cells == SelectSeq(row.kids, LAMBDA c : c.tag = "table:table-cell")
        runs == [i \in 1..Len(cells) |->
                    IF "numbercolumnsrepeated" \in DOMAIN cells[i].attrs
                    THEN int(cells[i].attrs["numbercolumnsrepeated"]) ELSE 1]
    IN  TreeText(cells[RunAt(runs, k)])

\* the columns of block row j that a record's header fields and grand total go to
HeaderColumns(j) ==
    CASE j = 5 -> {4, 18}
      [] j = 6 -> {4, 14}
      [] j = 7 -> {18}
      [] j = 29 -> {15}
      [] OTHER -> {}

\* C18: at the end of the run, for every record n and line item i in 1..16, the
\* cells at row 12+i of block n in columns C, F, L, N, O show record n's SKU,
\* name, quantity, price and total of item i, as one paragraph; an empty field
\* leaves a cell without content; every cell of block n outside the line-item,
\* header and grand total coordinates shows what the template row shows there,
\* so nothing of another record is in block n.
C18_ItemCells ==
    pc = "done" =>
        \A n \in 1..total_records :
            /\ \A i \in FIRST_ITEM..LAST_ITEM : \A c \in ItemColumns :
                  LET cell == CellAt(heap, blocks[n][12 + i], c[1])
                      text == Shown(loaded.records[n].prod[i][c[2]])
                  IN  /\ cell # None
                      /\ TextOf(heap, cell) = text
                      /\ Len(heap[cell].kids) = IF text = <<>> THEN 0 ELSE 1
            /\ \A j \in 1..BLOCK_ROWS :
                  LET cells == iter_cells(heap, blocks[n][j])
                      runs == CellRuns(heap, blocks[n][j])
                  IN  \A k \in (1..SumSeq(runs))
                                \ (IF j \in (12 + FIRST_ITEM)..(12 + LAST_ITEM)
                                   THEN {c[1] : c \in ItemColumns} ELSE HeaderColumns(j)) :
                          TextOf(heap, cells[RunAt(runs, k)])
                              = TreeCellText(loaded.templates[j], k)

\* two records on a template with content in the item rows: the total of item
\* 16 is 9.99 in block 1 and empty in block 2, item 1 shows "10" and "5"
C18_Witness ==
    /\ pc = "done"
    /\ total_records = 2
    /\ TreeCellText(loaded.templates[28], 15) # <<>>
    /\ TextOf(heap, CellAt(heap, blocks[1][28], 15)) = Txt999
    /\ heap[CellAt(heap, blocks[2][28], 15)].kids = <<>>
    /\ TextOf(heap, CellAt(heap, blocks[2][13], 12)) = <<"1", "0">>
    /\ TextOf(heap, CellAt(heap, blocks[2][13], 14)) = <<"5">>
    /\ TextOf(heap, CellAt(heap, blocks[2][13], 15)) = <<"x">>

-----------------------------------------------------------------------------
(* set_cell_text *)

\* C19: after set_cell_text(cell, t) the cell depends only on t and on the
\* attributes it had that carry no value: these are kept as they were; for a
\* non-empty t the cell has exactly one paragraph, holding t, and is marked
\* string-typed; for t = "" it has no child and no value-bearing attribute, the
\* string type included.
C19_SetTextDependsOnTextOnly ==
    last.op = "set_cell_text" =>
        LET a == heap[last.cell].attrs
            kept == (DOMAIN last.before.attrs) \ ValueBearing
        IN  /\ \A k \in kept : k \in DOMAIN a /\ a[k] = last.before.attrs[k]
            /\ (DOMAIN a) \ kept = IF last.text = <<>> THEN {} ELSE {"valuetype"}
            /\ last.text # <<>> =>
                  /\ a["valuetype"] = TxtString
                  /\ Len(heap[last.cell].kids) = 1
                  /\ heap[heap[last.cell].kids[1]].tag = "text:p"
                  /\ TextOf(heap, last.cell) = last.text
            /\ last.text = <<>> => heap[last.cell].kids = <<>>

\* a cell written with a text and then with "": no child, still string-typed
C19_StillTyped ==
    /\ last.op = "set_cell_text"
    /\ last.text = <<>>
    /\ heap[last.cell].kids = <<>>
    /\ "valuetype" \in DOMAIN heap[last.cell].attrs
    /\ "valuetype" \in DOMAIN last.before.attrs
    /\ last.before.kids # <<>>

-----------------------------------------------------------------------------
(* Row and column counts over the run *)

\* the rows of the sheet that a step keeps
KeptRows == {r \in Reach(heap, print_all) \cap Reach(heap', print_all) :
                heap[r].tag = "table:table-row"}

\* C20: setup leaves the sheet with the row count T of the template sheet, the
\* first record leaves the count as it is and every later record adds exactly
\* 31, so that the count is T while no record or one record is processed and
\* T + 31*(N-1) after N records; no step changes the logical column count of a
\* row it keeps, and the rows of a new block have the column counts of the
\* template rows.
C20_RowAndColumnCounts ==
    /\ [][/\ (pc = "start" /\ print_all' # None) =>
                TotalRows(heap', print_all') = TotalRows(heap, print_all')
          /\ (pc = "records" /\ total_records' = total_records + 1) =>
                /\ TotalRows(heap', print_all)
                      = TotalRows(heap, print_all) + IF total_records = 0 THEN 0 ELSE BLOCK_ROWS
                /\ \A j \in 1..BLOCK_ROWS :
                      TotalCols(heap', blocks'[total_records'][j])
                          = TotalCols(heap, template_rows[j])
          /\ (print_all # None /\ print_all' = print_all) =>
                \A r \in KeptRows : TotalCols(heap', r) = TotalCols(heap, r)]_vars
    /\ [](pc \in {"records", "crashed", "done"} =>
            TotalRows(heap, print_all)
                = loaded.rows + BLOCK_ROWS * (IF total_records = 0 THEN 0 ELSE total_records - 1))

\* two records on the template with row 1000: 31 rows more than the template,
\* and a row of the second block split into more cell runs, as wide as before
C20_Witness ==
    /\ pc = "done"
    /\ total_records = 2
    /\ loaded.rows >= BREAK_ROW
    /\ TotalRows(heap, print_all) = loaded.rows + BLOCK_ROWS
    /\ Len(CellRuns(heap, blocks[2][13])) > Len(CellRuns(heap, template_rows[13]))
    /\ TotalCols(heap, blocks[2][13]) = TotalCols(heap, template_rows[13])

====
